---------------------------- MODULE Spec2Model ----------------------------
(***************************************************************************)
(* Model of the connection dialog controller of vscode-mssql               *)
(* (ConnectionDialogWebviewController, src/unnamed/part_000).              *)
(*                                                                         *)
(* Values of profile fields are strings.  Every test the controller makes  *)
(* on a profile value is a truthiness test (!value, value ? a : b), so     *)
(* JavaScript's undefined and '' are both written Empty.                   *)
(***************************************************************************)
EXTENDS Integers, Sequences, FiniteSets, TLC

VARIABLES
    (* the dialog session: this.state of the controller *)
    profile,            \* connectionProfile: field -> value
    mode,               \* selectedInputMode
    hidden,             \* the fields whose spec has hidden = true
    validation,         \* field -> "none" | "valid" | "invalid"
    status,             \* connectionStatus
    formError,          \* formError, "" when there is none
    dialog,             \* the recovery dialog, NoDialog when there is none
    accountOptions,     \* options of the accountId dropdown
    tenantOptions,      \* options of the tenantId dropdown
    refreshButton,      \* accountId's action buttons hold refreshToken
    azureSubscriptions, \* [id, loaded] of each subscription, as listed
    azureServers,       \* the servers loaded, in the order they were pushed
    loadingAzureSubscriptionsStatus,
    loadingAzureServersStatus,
    (* the controller's private fields and its panel *)
    azureSubscriptionMap, \* _azureSubscriptions, in insertion order
    connectionToEditCopy, \* 0, or the index of the connection loaded
    panel,              \* "open" | "disposed"
    missingSpecs,       \* the main options that have no field spec
    (* the handlers in flight, each suspended at an awaited call *)
    tasks,
    (* harness of the pure functions *)
    arg,                \* input of the function under check
    res                 \* the results so far, <<>> before the first

azure == <<azureSubscriptions, azureServers, loadingAzureSubscriptionsStatus,
           loadingAzureServersStatus, azureSubscriptionMap>>

session == <<profile, mode, hidden, validation, status, formError, dialog,
             accountOptions, tenantOptions, refreshButton,
             connectionToEditCopy, panel, azure, missingSpecs>>

vars == <<session, tasks, arg, res>>

Empty == ""
NotRun == "notRun"
Undefined == "undefined"

(***************************************************************************)
(* Small helpers on sequences.                                             *)
(***************************************************************************)
Range(s) == {s[i] : i \in 1..Len(s)}

Includes(s, x) == \E i \in 1..Len(s) : s[i] = x

SeqsUpTo(S, n) == UNION {[1..k -> S] : k \in 0..n}

(***************************************************************************)
(* groupBy: a reduce over the values into a Map, which keeps its keys in   *)
(* insertion order.  The Map is a sequence of [key, vals] entries.         *)
(***************************************************************************)
MapHas(rv, k) == \E i \in 1..Len(rv) : rv[i].key = k

MapIndex(rv, k) == CHOOSE i \in 1..Len(rv) : rv[i].key = k

GroupByPushFront(rv, x) ==
    IF MapHas(rv, x.tenantId)
    THEN [rv EXCEPT ![MapIndex(rv, x.tenantId)].vals = <<x>> \o @]
    ELSE Append(rv, [key |-> x.tenantId, vals |-> <<x>>])

\* one step of the reducer: create the key's list when missing, then push
GroupByStep(rv, x) ==
    IF MapHas(rv, x.tenantId)
    THEN [rv EXCEPT ![MapIndex(rv, x.tenantId)].vals = Append(@, x)]
    ELSE Append(rv, [key |-> x.tenantId, vals |-> <<x>>])

RECURSIVE GroupByFrom(_, _, _)
GroupByFrom(values, i, rv) ==
    IF i > Len(values) THEN rv
    ELSE GroupByFrom(values, i + 1, GroupByStep(rv, values[i]))

groupBy(values) == GroupByFrom(values, 1, <<>>)

(***************************************************************************)
(* Schema compilation.  A JavaScript object keeps its keys in insertion    *)
(* order: the field map is [order |-> keys as inserted, at |-> key -> spec]*)
(***************************************************************************)
EmptyObject == [order |-> <<>>, at |-> <<>>]

ObjHas(obj, k) == Includes(obj.order, k)

ObjSet(obj, k, v) ==
    [order |-> IF ObjHas(obj, k) THEN obj.order ELSE Append(obj.order, k),
     at    |-> (k :> v) @@ obj.at]

KnownValueTypes == {"boolean", "string", "password", "number", "category"}

\* the kind of form item each value type is shown as
FormItemTypeOf(valueType) ==
    CASE valueType = "boolean"  -> "checkbox"
      [] valueType = "string"   -> "input"
      [] valueType = "password" -> "password"
      [] valueType = "number"   -> "input"
      [] valueType = "category" -> "dropdown"

\* what a call returns: a field spec, undefined (the default branch logs
\* and falls off the end of the function), or a TypeError (a category
\* option without categoryValues: undefined.map)
convertToFormComponent(connOption) ==
    IF connOption.valueType \notin KnownValueTypes
    THEN [outcome |-> "undefined", propertyName |-> Undefined,
          type |-> Undefined]
    ELSE IF connOption.valueType = "category"
            /\ connOption.categoryValues = Undefined
    THEN [outcome |-> "throw", propertyName |-> Undefined,
          type |-> Undefined]
    ELSE [outcome |-> "spec", propertyName |-> connOption.name,
          type |-> FormItemTypeOf(connOption.valueType)]

\* groupNames[option.groupName] ?? option.groupName: the capabilities name
\* the five categories the service defines
groupDisplayNames(groupName) ==
    CASE groupName = "security" -> "Security"
      [] groupName = "initialization" -> "Initialization"
      [] groupName = "resiliency" -> "Resiliency"
      [] groupName = "pooling" -> "Pooling"
      [] groupName = "context" -> "Context"
      [] OTHER -> groupName

_mainOptionNames ==
    {"server", "authenticationType", "user", "password", "savePassword",
     "accountId", "tenantId", "database", "trustServerCertificate",
     "encrypt", "profileName"}

\* { ...convertToFormComponent(option), isAdvancedOption, optionCategory }:
\* spreading undefined adds no property, so the entry then has neither a
\* propertyName nor a type
OptionEntry(option) ==
    LET c == convertToFormComponent(option) IN
    [propertyName     |-> c.propertyName,
     type             |-> c.type,
     isAdvancedOption |-> option.name \notin _mainOptionNames,
     optionCategory   |-> option.groupName,
     optionCategoryLabel |-> groupDisplayNames(option.groupName),
     validate         |-> FALSE]

\* the loop over the options: the try block assigns result[option.name],
\* the catch block logs and goes on with the next option
RECURSIVE OptionsLoop(_, _, _)
OptionsLoop(options, i, result) ==
    IF i > Len(options) THEN result
    ELSE OptionsLoop(options, i + 1,
                     IF convertToFormComponent(options[i]).outcome = "throw"
                     THEN result
                     ELSE ObjSet(result, options[i].name,
                                 OptionEntry(options[i])))

BuiltIn(name, type, hasValidate) ==
    [propertyName     |-> name,
     type             |-> type,
     isAdvancedOption |-> FALSE,
     optionCategory   |-> Undefined,
     optionCategoryLabel |-> Undefined,
     validate         |-> hasValidate]

\* the built-in fields, then the validators of server and user; assigning
\* .validate on a missing entry is a TypeError
completeFormComponents(components) ==
    LET c1 == ObjSet(components, "profileName",
                     BuiltIn("profileName", "input", FALSE))
        c2 == ObjSet(c1, "savePassword",
                     BuiltIn("savePassword", "checkbox", FALSE))
        c3 == ObjSet(c2, "accountId", BuiltIn("accountId", "dropdown", TRUE))
        c4 == ObjSet(c3, "tenantId", BuiltIn("tenantId", "dropdown", TRUE))
        c5 == ObjSet(c4, "connectionString",
                     BuiltIn("connectionString", "textarea", TRUE))
    IN  IF ~ObjHas(c5, "server") THEN [threw |-> TRUE, components |-> c5]
        ELSE LET c6 == ObjSet(c5, "server",
                              [c5.at["server"] EXCEPT !.validate = TRUE])
             IN  IF ~ObjHas(c6, "user")
                 THEN [threw |-> TRUE, components |-> c6]
                 ELSE [threw |-> FALSE,
                       components |->
                           ObjSet(c6, "user",
                                  [c6.at["user"] EXCEPT !.validate = TRUE])]

generateConnectionComponents(connectionOptions) ==
    completeFormComponents(OptionsLoop(connectionOptions, 1, EmptyObject))

(***************************************************************************)
(* The dialog's form.  The fields are those the claims speak of: the main  *)
(* options that carry a validator or can be hidden, and the two fields of  *)
(* the connection-string view.  (trustServerCertificate, database and      *)
(* encrypt are main options without validator that are never hidden.)      *)
(***************************************************************************)
Fields ==
    {"server", "authenticationType", "user", "password", "savePassword",
     "accountId", "tenantId", "connectionString", "profileName"}

mainOptions ==
    <<"server", "authenticationType", "user", "password", "savePassword",
      "accountId", "tenantId">>

InputModes == {"Parameters", "ConnectionString", "AzureBrowse"}

AuthenticationTypes == {"SqlLogin", "Integrated", "AzureMFA"}

\* the identity provider's accounts and their tenants
Accounts == <<"a1", "a2">>

TenantsOf(accountId) ==
    CASE accountId = "a1" -> <<"t1">>
      [] accountId = "a2" -> <<"t1", "t2">>
      [] OTHER -> <<>>

\* getTenants: the account's tenants; [] when the account is unknown or
\* when listing the accounts failed
getTenants(accountId, listingFails) ==
    IF listingFails THEN <<>> ELSE TenantsOf(accountId)

IsFormMode(inputMode) == inputMode \in {"Parameters", "AzureBrowse"}

getActiveFormComponents(inputMode) ==
    IF IsFormMode(inputMode) THEN mainOptions
    ELSE <<"connectionString", "profileName">>

(***************************************************************************)
(* groupAdvancedOptions: a Map seeded with five keys whose value is        *)
(* undefined, filled from the advanced options in the order of the field   *)
(* map; the result is the Map's values.                                    *)
(***************************************************************************)
\* componentsInfo.mainOptions, with the three options the form above leaves
\* out
componentsInfoMainOptions ==
    mainOptions \o <<"trustServerCertificate", "database", "encrypt">>

topAdvancedOptions ==
    <<"port", "applicationName", "connectTimeout", "multiSubnetFailover">>

SeedCategories ==
    <<"security", "initialization", "resiliency", "pooling", "context">>

\* the value undefined where a group is expected
UndefinedGroup == [undefined |-> TRUE]

SeedGroupMap ==
    [i \in DOMAIN SeedCategories |->
        [key |-> SeedCategories[i], vals |-> UndefinedGroup]]

\* Object.values(componentsInfo.components), filtered
optionsToGroup(components) ==
    LET values == [i \in DOMAIN components.order |->
                      components.at[components.order[i]]]
    IN  SelectSeq(values,
                  LAMBDA c :
                      /\ c.isAdvancedOption
                      /\ ~Includes(componentsInfoMainOptions, c.propertyName)
                      /\ ~Includes(topAdvancedOptions, c.propertyName))

NewGroup(option) ==
    [groupName |-> option.optionCategoryLabel,
     options |-> <<option.propertyName>>]

\* the body of the loop: Map.set on a key the Map has keeps the key's place
GroupOption(groupMap, option) ==
    IF ~MapHas(groupMap, option.optionCategory)
    THEN Append(groupMap, [key |-> option.optionCategory,
                           vals |-> NewGroup(option)])
    ELSE LET i == MapIndex(groupMap, option.optionCategory)
         IN  IF groupMap[i].vals = UndefinedGroup
             THEN [groupMap EXCEPT ![i].vals = NewGroup(option)]
             ELSE [groupMap EXCEPT ![i].vals.options =
                       Append(@, option.propertyName)]

RECURSIVE GroupOptionsFrom(_, _, _)
GroupOptionsFrom(options, i, groupMap) ==
    IF i > Len(options) THEN groupMap
    ELSE GroupOptionsFrom(options, i + 1, GroupOption(groupMap, options[i]))

\* the Map once the loop has ended
AdvancedGroupMap(components) ==
    GroupOptionsFrom(optionsToGroup(components), 1, SeedGroupMap)

\* Array.from(groupMap.values())
groupAdvancedOptions(components) ==
    LET groupMap == AdvancedGroupMap(components)
    IN  [i \in DOMAIN groupMap |-> groupMap[i].vals]

\* getFormComponent(propertyName) is defined
HasFormComponent(inputMode, propertyName) ==
    Includes(getActiveFormComponents(inputMode), propertyName)

(***************************************************************************)
(* updateItemVisibility: the properties pushed before the tenant lookup,   *)
(* whether the lookup is awaited, and the flags written after it.          *)
(***************************************************************************)
HiddenBeforeLookup(inputMode, authenticationType) ==
    IF IsFormMode(inputMode)
    THEN (IF authenticationType # "SqlLogin"
          THEN {"user", "password", "savePassword"} ELSE {})
         \cup
         (IF authenticationType # "AzureMFA"
          THEN {"accountId", "tenantId"} ELSE {})
    ELSE {}

NeedsTenantLookup(inputMode, authenticationType) ==
    IsFormMode(inputMode) /\ authenticationType = "AzureMFA"

HiddenAfterLookup(hiddenProperties, tenants) ==
    hiddenProperties \cup (IF Len(tenants) = 1 THEN {"tenantId"} ELSE {})

(***************************************************************************)
(* Validation.  The validators read the authentication type of the working *)
(* profile and the selected input mode, and the value they are handed.     *)
(***************************************************************************)
HasValidate(f) ==
    f \in {"server", "user", "accountId", "tenantId", "connectionString"}

IsValidServerAlways(f, value, authenticationType, inputMode) ==
    CASE f = "server" -> value # Empty
      [] f = "user" -> ~(authenticationType = "SqlLogin" /\ value = Empty)
      [] f \in {"accountId", "tenantId"} ->
            ~(authenticationType = "AzureMFA" /\ value = Empty)
      [] f = "connectionString" ->
            ~(inputMode = "ConnectionString" /\ value = Empty)
      [] OTHER -> TRUE

IsValid(f, value, authenticationType, inputMode) ==
    CASE f \in {"server", "user"} ->
            ~(authenticationType = "SqlLogin" /\ value = Empty)
      [] f \in {"accountId", "tenantId"} ->
            ~(authenticationType = "AzureMFA" /\ value = Empty)
      [] f = "connectionString" ->
            ~(inputMode = "ConnectionString" /\ value = Empty)
      [] OTHER -> TRUE

Mark(f, value, authenticationType, inputMode) ==
    IF IsValid(f, value, authenticationType, inputMode)
    THEN "valid" ELSE "invalid"

ValidateFieldAnyMode(s, connectionProfile, propertyName) ==
    IF HasValidate(propertyName)
    THEN [s.validation EXCEPT ![propertyName] =
              Mark(propertyName, connectionProfile[propertyName],
                   s.profile["authenticationType"], s.mode)]
    ELSE s.validation

\* validateConnectionProfile(connectionProfile, propertyName): the marks
\* after validating one field
ValidateField(s, connectionProfile, propertyName) ==
    IF HasFormComponent(s.mode, propertyName) /\ HasValidate(propertyName)
    THEN [s.validation EXCEPT ![propertyName] =
              Mark(propertyName, connectionProfile[propertyName],
                   s.profile["authenticationType"], s.mode)]
    ELSE s.validation

ErroredInputsWithHidden(s, connectionProfile) ==
    SelectSeq(getActiveFormComponents(s.mode),
              LAMBDA f : /\ HasValidate(f)
                         /\ ~IsValid(f, connectionProfile[f],
                                     s.profile["authenticationType"], s.mode))

\* validateConnectionProfile(connectionProfile): the fields reported
ErroredInputs(s, connectionProfile) ==
    SelectSeq(getActiveFormComponents(s.mode),
              LAMBDA f : /\ f \notin s.hidden
                         /\ HasValidate(f)
                         /\ ~IsValid(f, connectionProfile[f],
                                     s.profile["authenticationType"], s.mode))

\* validateConnectionProfile(connectionProfile): the marks it leaves
ValidateAll(s, connectionProfile) ==
    [f \in Fields |->
        IF ~HasFormComponent(s.mode, f) THEN s.validation[f]
        ELSE IF f \in s.hidden THEN "valid"
        ELSE IF HasValidate(f)
             THEN Mark(f, connectionProfile[f],
                       s.profile["authenticationType"], s.mode)
        ELSE s.validation[f]]

\* clearFormError: the marks of the active fields are dropped
ClearedMarks(s) ==
    [f \in Fields |->
        IF HasFormComponent(s.mode, f) THEN "none" ELSE s.validation[f]]

\* the main options that only the capability descriptor provides and that
\* carry no validator; the form is built with or without them
OptionalMainOptions == {"trustServerCertificate", "database", "encrypt"}

\* clearFormError and the whole-form validation dereference the field spec
\* of every active field: a TypeError at the first one that is missing
MissingActiveSpec(s) == IsFormMode(s.mode) /\ s.missingSpecs # {}

\* the marks clearFormError has dropped when it throws: trustServerCertificate
\* comes second of the main options, database and encrypt last
ClearedBeforeThrow(s) ==
    IF "trustServerCertificate" \in s.missingSpecs
    THEN [s.validation EXCEPT !["server"] = "none"]
    ELSE ClearedMarks(s)

(***************************************************************************)
(* cleanConnection: hidden fields are cleared, then the fields of the      *)
(* input mode that is not selected.                                        *)
(***************************************************************************)
cleanConnectionKeepServer(connection, hiddenFields, inputMode) ==
    LET c1 == [f \in DOMAIN connection |->
                  IF f \in hiddenFields THEN Empty ELSE connection[f]]
    IN  IF IsFormMode(inputMode)
        THEN [c1 EXCEPT !["connectionString"] = Empty]
        ELSE [f \in DOMAIN c1 |->
                 IF f \notin {"connectionString", "profileName", "server"}
                 THEN Empty ELSE c1[f]]

cleanConnectionKeepHidden(connection, hiddenFields, inputMode) ==
    IF IsFormMode(inputMode)
    THEN [connection EXCEPT !["connectionString"] = Empty]
    ELSE [f \in DOMAIN connection |->
             IF f \notin {"connectionString", "profileName"}
             THEN Empty ELSE connection[f]]

cleanConnectionByContent(connection, hiddenFields, inputMode) ==
    LET c1 == [f \in DOMAIN connection |->
                  IF f \in hiddenFields THEN Empty ELSE connection[f]]
    IN  IF c1["connectionString"] # Empty
        THEN [c1 EXCEPT !["connectionString"] = Empty]
        ELSE [f \in DOMAIN c1 |->
                 IF f \notin {"connectionString", "profileName"}
                 THEN Empty ELSE c1[f]]

cleanConnection(connection, hiddenFields, inputMode) ==
    LET c1 == [f \in DOMAIN connection |->
                  IF f \in hiddenFields THEN Empty ELSE connection[f]]
    IN  IF IsFormMode(inputMode)
        THEN [c1 EXCEPT !["connectionString"] = Empty]
        ELSE IF inputMode = "ConnectionString"
        THEN [f \in DOMAIN c1 |->
                 IF f \notin {"connectionString", "profileName"}
                 THEN Empty ELSE c1[f]]
        ELSE c1

(***************************************************************************)
(* The handlers.  A handler runs from one awaited collaborator call to the *)
(* next without any other handler running; at an awaited call it is        *)
(* suspended and other handlers may run.  A task records where a handler   *)
(* is suspended and the locals it holds across the call.  A segment of a   *)
(* handler is an operator from the session s and the task t to the session *)
(* and task it leaves: pc "cont" when the segment ran to its end, "done"   *)
(* when the handler returned, "threw" when it rejected.                    *)
(***************************************************************************)
MaxInFlight == 2

TaskIds == 1..MaxInFlight

EmptyProfile == [f \in Fields |-> Empty]

NoDialog ==
    [type |-> "none", message |-> Empty, clientIp |-> Empty, tenants |-> <<>>]

IdleTask ==
    [kind |-> "idle", pc |-> "idle", prop |-> Empty, lookup |-> Empty,
     hiddenProperties |-> {}, hasAccount |-> FALSE, hasTenant |-> FALSE,
     cleaned |-> EmptyProfile, clientIp |-> Empty, ruleFailed |-> FALSE,
     fetches |-> <<>>, effects |-> <<>>, events |-> <<>>,
     handed |-> EmptyProfile,
     subscriptionId |-> 0, azSub |-> FALSE, stateSub |-> FALSE]

Session ==
    [profile |-> profile, mode |-> mode, hidden |-> hidden,
     validation |-> validation, status |-> status, formError |-> formError,
     dialog |-> dialog, accountOptions |-> accountOptions,
     tenantOptions |-> tenantOptions,
     refreshButton |-> refreshButton,
     connectionToEditCopy |-> connectionToEditCopy, panel |-> panel,
     azureSubscriptions |-> azureSubscriptions,
     azureServers |-> azureServers,
     loadingAzureSubscriptionsStatus |-> loadingAzureSubscriptionsStatus,
     loadingAzureServersStatus |-> loadingAzureServersStatus,
     azureSubscriptionMap |-> azureSubscriptionMap,
     missingSpecs |-> missingSpecs]

Auth(s) == s.profile["authenticationType"]

Cont(s, t) == [s |-> s, t |-> [t EXCEPT !.pc = "cont"]]

Return(s, t) == [s |-> s, t |-> [t EXCEPT !.pc = "done"]]

Throw(s, t) == [s |-> s, t |-> [t EXCEPT !.pc = "threw"]]

Suspend(s, t, at) == [s |-> s, t |-> [t EXCEPT !.pc = at]]

Then(r, F(_, _)) == IF r.t.pc = "cont" THEN F(r.s, r.t) ELSE r

\* sendErrorEvent and sendActionEvent of the connect flow, of addFirewallRule
\* and of loadConnection: the events the handler has sent, in order
Emit(t, event) == [t EXCEPT !.events = Append(@, event)]

\* updateItemVisibility up to its await of getTenants, or to its end
VizStart(s, t) ==
    IF NeedsTenantLookup(s.mode, Auth(s))
    THEN Suspend(s, [t EXCEPT
                        !.hiddenProperties =
                            HiddenBeforeLookup(s.mode, Auth(s)),
                        !.lookup = s.profile["accountId"]],
                 "viz_tenants")
    ELSE Cont([s EXCEPT !.hidden = HiddenBeforeLookup(s.mode, Auth(s))], t)

\* updateItemVisibility after its await
VizFinish(s, t, tenants) ==
    Cont([s EXCEPT !.hidden = HiddenAfterLookup(t.hiddenProperties, tenants)],
         t)

\* accountComponent.actionButtons = await this.getAzureActionButtons():
\* a TypeError when the account field is not in the active set; the call
\* awaits the accounts and the token only for an Azure-MFA account
MfaButtons(s, t) ==
    IF ~t.hasAccount THEN Throw(s, t)
    ELSE IF Auth(s) = "AzureMFA" /\ s.profile["accountId"] # Empty
    THEN Suspend(s, t, "mfa_buttons")
    ELSE Cont([s EXCEPT !.refreshButton = FALSE], t)

mfaComponents == {"accountId", "tenantId", "authenticationType"}

\* handleAzureMFAEdits(propertyName) up to its await of getTenants
MfaStart(s, t, propertyName) ==
    IF propertyName \notin mfaComponents \/ Auth(s) # "AzureMFA"
    THEN Cont(s, t)
    ELSE
      LET t1 == [t EXCEPT !.prop = propertyName,
                          !.hasAccount = HasFormComponent(s.mode, "accountId"),
                          !.hasTenant = HasFormComponent(s.mode, "tenantId")]
      IN  CASE propertyName = "accountId" ->
                 Suspend(s, [t1 EXCEPT !.lookup = s.profile["accountId"]],
                         "mfa_tenants")
            [] propertyName = "tenantId" -> Cont(s, t1)
            [] propertyName = "authenticationType" ->
                 IF ~t1.hasAccount THEN Throw(s, t1)
                 ELSE LET s1 == IF s.accountOptions # <<>>
                                THEN [s EXCEPT !.profile["accountId"] =
                                                   s.accountOptions[1]]
                                ELSE s
                      IN  Suspend(s1, [t1 EXCEPT !.lookup =
                                                     s1.profile["accountId"]],
                                  "mfa_tenants")

MfaTenantsKeepsTenant(s, t, tenants) ==
    MfaButtons(IF t.hasTenant THEN [s EXCEPT !.tenantOptions = tenants] ELSE s,
               t)

\* handleAzureMFAEdits after its await of getTenants
MfaTenants(s, t, tenants) ==
    MfaButtons(IF ~t.hasTenant THEN s
               ELSE IF tenants # <<>>
               THEN [s EXCEPT !.tenantOptions = tenants,
                              !.profile["tenantId"] = tenants[1]]
               ELSE [s EXCEPT !.tenantOptions = tenants],
               t)

\* what a handler does once updateItemVisibility has returned
AfterViz(s, t) ==
    CASE t.kind = "loadConnection" ->
            Then(MfaStart(s, t, "accountId"), Return)
      [] t.kind = "setConnectionInputType" ->
            IF s.mode = "AzureBrowse" THEN Suspend(s, t, "az_load")
            ELSE Return(s, t)
      [] OTHER -> Return(s, t)

\* what a handler does once handleAzureMFAEdits has returned
AfterMfa(s, t) ==
    CASE t.kind = "loadConnection" -> Return(s, t)
      [] OTHER -> Then(VizStart(s, t), AfterViz)

\* loadAllAzureServers, as far as it writes the form error: the sign-in
\* returned undefined, listing the subscriptions threw, there is no
\* subscription, the servers were loaded, or the batch rejected
AzureLoad(s, t, result) ==
    CASE result = "notSignedIn" ->
            Return([s EXCEPT !.formError = "azureSignInFailed"], t)
      [] result = "subscriptionsThrow" ->
            Return([s EXCEPT !.formError = "errorLoadingSubscriptions"], t)
      [] result = "noSubscriptions" ->
            Return([s EXCEPT !.formError = "noSubscriptions"], t)
      [] result = "serversThrow" ->
            Return([s EXCEPT !.formError = "errorLoadingDatabases"], t)
      [] result = "loaded" -> Return(s, t)

(***************************************************************************)
(* connectHelper and handleConnectionErrorCodes.                           *)
(***************************************************************************)
\* the handler does an effect of the success path and awaits it; the
\* effects it has done so far are kept in order
Call(s, t, effect) ==
    Suspend(s, [t EXCEPT !.effects = Append(@, effect)], effect)

\* saveProfile and createObjectExplorerSessionFromDialog are called with
\* this.state.connectionProfile; handed is the argument of the last call
HandProfile(s, t, effect) ==
    Call(s, [t EXCEPT !.handed = s.profile], effect)

\* after the success telemetry: the connection under edit is looked up and
\* removed first
ConnectSucceeded(s, t) ==
    LET t1 == Emit(t, "CreateConnection.success")
    IN  IF s.connectionToEditCopy # 0
        THEN Suspend(s, t1, "getUriForConnection")
        ELSE HandProfile(s, t1, "saveProfile")

\* clearFormError, status Loading, updateState
ConnectStart(s, t) ==
    IF MissingActiveSpec(s)
    THEN Throw([s EXCEPT !.formError = Empty,
                         !.validation = ClearedBeforeThrow(s)], t)
    ELSE Suspend([s EXCEPT !.formError = Empty,
                           !.validation = ClearedMarks(s),
                           !.status = "Loading"],
                 t, "co_validate")

ConnectValidateNoStop(s, t) ==
    LET cleaned == cleanConnection(s.profile, s.hidden, s.mode)
        s1 == [s EXCEPT !.validation = ValidateAll(s, cleaned)]
    IN  Suspend(s1, [t EXCEPT !.cleaned = cleaned], "co_remote")

ConnectValidateInPlace(s, t) ==
    LET cleaned == cleanConnection(s.profile, s.hidden, s.mode)
        s1 == [s EXCEPT !.validation = ValidateAll(s, cleaned),
                        !.profile = cleaned]
    IN  IF ErroredInputs(s, cleaned) # <<>>
        THEN Return([s1 EXCEPT !.status = "Error"], t)
        ELSE Suspend(s1, [t EXCEPT !.cleaned = cleaned], "co_remote")

\* the clean copy, the final validation, and the call of the remote
\* validate-and-save when no input is in error
ConnectValidate(s, t) ==
    LET cleaned == cleanConnection(s.profile, s.hidden, s.mode)
        s1 == [s EXCEPT !.validation = ValidateAll(s, cleaned)]
    IN  IF ErroredInputs(s, cleaned) # <<>>
        THEN Return([s1 EXCEPT !.status = "Error"], t)
        ELSE Suspend(s1, [t EXCEPT !.cleaned = cleaned], "co_remote")

ConnectCatchFallsThrough(s, t) ==
    ConnectSucceeded([s EXCEPT !.formError = "thrown", !.status = "Error"],
                     Emit(t, "CreateConnection.error"))

ConnectCatchNoMessage(s, t) ==
    Return([s EXCEPT !.status = "Error"], Emit(t, "CreateConnection.error"))

\* the inner catch of connectHelper
ConnectCatch(s, t) ==
    Return([s EXCEPT !.formError = "thrown", !.status = "Error"],
           Emit(t, "CreateConnection.error"))

ConnectRemoteOtherSilent(s, t, result) ==
    CASE result = "throw" -> ConnectCatch(s, t)
      [] result = "certError" ->
            Return([s EXCEPT !.status = "Error",
                             !.dialog = [type |-> "trustServerCert",
                                         message |-> "errorMessage",
                                         clientIp |-> Empty,
                                         tenants |-> <<>>]], t)
      [] result = "firewallError" ->
            Suspend([s EXCEPT !.status = "Error"], t, "co_firewall")
      [] result = "otherError" ->
            Return([s EXCEPT !.formError = "errorMessage",
                             !.status = "Error"], t)
      [] result = "ok" -> ConnectSucceeded(s, t)

ConnectRemoteCertAsOther(s, t, result) ==
    CASE result = "throw" -> ConnectCatch(s, t)
      [] result = "firewallError" ->
            Suspend([s EXCEPT !.status = "Error"], t, "co_firewall")
      [] result \in {"certError", "otherError"} ->
            Return([s EXCEPT !.formError = "errorMessage",
                             !.status = "Error"],
                   Emit(t, "CreateConnection.connectionError"))
      [] result = "ok" -> ConnectSucceeded(s, t)

\* the answer of validateAndSaveProfileFromDialog
ConnectRemote(s, t, result) ==
    CASE result = "throw" -> ConnectCatch(s, t)
      [] result = "certError" ->
            Return([s EXCEPT !.status = "Error",
                             !.dialog = [type |-> "trustServerCert",
                                         message |-> "errorMessage",
                                         clientIp |-> Empty,
                                         tenants |-> <<>>]], t)
      [] result = "firewallError" ->
            Suspend([s EXCEPT !.status = "Error"], t, "co_firewall")
      [] result = "otherError" ->
            Return([s EXCEPT !.formError = "errorMessage",
                             !.status = "Error"],
                   Emit(t, "CreateConnection.connectionError"))
      [] result = "ok" -> ConnectSucceeded(s, t)

\* the answer of firewallService.handleFirewallRule
ConnectFirewall(s, t, result) ==
    CASE result = "throw" -> ConnectCatch(s, t)
      [] result = "detected" ->
            Suspend(s, [t EXCEPT !.clientIp = "10.0.0.1"], "co_firewallAuth")
      [] result = "notDetected" ->
            Suspend(s, Emit([t EXCEPT !.clientIp = "0.0.0.0"],
                            "AddFirewallRule.error"),
                    "co_firewallAuth")

\* the tenants of the signed-in identity
SignedInTenants == <<"t1", "t2">>

\* confirmVscodeAzureSignin() and auth.getTenants(): the sign-in may
\* return undefined, and auth.getTenants() is then a TypeError
ConnectFirewallAuth(s, t, result) ==
    CASE result \in {"throw", "notSignedIn"} -> ConnectCatch(s, t)
      [] result = "tenants" ->
            Return([s EXCEPT !.dialog = [type |-> "addFirewallRule",
                                         message |-> "errorMessage",
                                         clientIp |-> t.clientIp,
                                         tenants |-> SignedInTenants]], t)

SavePcs ==
    {"getUriForConnection", "removeConnectionNodes", "removeProfile",
     "saveProfile", "createObjectExplorerSessionFromDialog",
     "updateLoadedConnections"}

RevealPcs == {"reveal", "dispose", "promptUserForNPSFeedback"}

ConnectSaveSessionFirst(s, t, result) ==
    IF result = "throw"
    THEN Return([s EXCEPT !.status = "Error"],
                Emit(t, "CreateConnection.error"))
    ELSE CASE t.pc = "getUriForConnection" ->
                 Call(s, t, "removeConnectionNodes")
           [] t.pc = "removeConnectionNodes" -> Call(s, t, "removeProfile")
           [] t.pc = "removeProfile" ->
                 HandProfile(s, t, "createObjectExplorerSessionFromDialog")
           [] t.pc = "createObjectExplorerSessionFromDialog" ->
                 HandProfile(s, [t EXCEPT !.cleaned = EmptyProfile],
                             "saveProfile")
           [] t.pc = "saveProfile" ->
                 Call(s, [t EXCEPT !.handed = EmptyProfile],
                      "updateLoadedConnections")
           [] t.pc = "updateLoadedConnections" ->
                 Call([s EXCEPT !.status = "Loaded"],
                      [t EXCEPT !.effects = Append(@, "Loaded")], "reveal")

\* one awaited call of the success path up to the reload of the lists has
\* returned, or it threw (outer catch); the next one is made
ConnectSave(s, t, result) ==
    IF result = "throw"
    THEN Return([s EXCEPT !.status = "Error"],
                Emit(t, "CreateConnection.error"))
    ELSE CASE t.pc = "getUriForConnection" ->
                 Call(s, t, "removeConnectionNodes")
           [] t.pc = "removeConnectionNodes" -> Call(s, t, "removeProfile")
           [] t.pc = "removeProfile" -> HandProfile(s, t, "saveProfile")
           [] t.pc = "saveProfile" ->
                 HandProfile(s, [t EXCEPT !.cleaned = EmptyProfile],
                             "createObjectExplorerSessionFromDialog")
           [] t.pc = "createObjectExplorerSessionFromDialog" ->
                 Call(s, [t EXCEPT !.handed = EmptyProfile],
                      "updateLoadedConnections")
           [] t.pc = "updateLoadedConnections" ->
                 Call([s EXCEPT !.status = "Loaded"],
                      [t EXCEPT !.effects = Append(@, "Loaded")], "reveal")

\* reveal, panel.dispose and the feedback prompt, each awaited
ConnectReveal(s, t, result) ==
    IF result = "throw"
    THEN Return([s EXCEPT !.status = "Error"],
                Emit(t, "CreateConnection.error"))
    ELSE CASE t.pc = "reveal" ->
                 Call([s EXCEPT !.panel = "disposed"], t, "dispose")
           [] t.pc = "dispose" -> Call(s, t, "promptUserForNPSFeedback")
           [] t.pc = "promptUserForNPSFeedback" -> Return(s, t)

(***************************************************************************)
(* The reducers, up to their first awaited call.                           *)
(***************************************************************************)
\* setConnectionInputType
SetInputTypeStart(s, t, inputMode) ==
    Then(VizStart([s EXCEPT !.mode = inputMode], t), AfterViz)

\* formAction, an edit of a field
FormEditStart(s, t, propertyName, value) ==
    LET s1 == [s EXCEPT !.profile[propertyName] = value]
        s2 == [s1 EXCEPT !.validation =
                             ValidateField(s1, s1.profile, propertyName)]
    IN  Then(MfaStart(s2, t, propertyName), AfterMfa)

\* formAction, an action button: only accountId carries buttons
FormButtonStart(s, t, propertyName, buttonId) ==
    IF /\ HasFormComponent(s.mode, propertyName)
       /\ propertyName = "accountId"
       /\ \/ buttonId = "azureSignIn"
          \/ buttonId = "refreshToken" /\ s.refreshButton
    THEN Suspend(s, t, IF buttonId = "azureSignIn"
                       THEN "cb_signIn" ELSE "cb_refresh")
    ELSE Then(VizStart(s, t), AfterViz)

\* the azureSignIn callback after addAccount and getAccounts
SignInDone(s, t, result, account, listingFails) ==
    IF result = "throw" THEN Throw(s, t)
    ELSE IF ~HasFormComponent(s.mode, "accountId")
    THEN Then(VizStart(s, t), AfterViz)
    ELSE LET s1 == [s EXCEPT !.accountOptions =
                                 IF listingFails THEN <<>> ELSE Accounts,
                             !.profile["accountId"] = account]
         IN  Then(MfaStart(s1, t, "accountId"), AfterMfa)

\* the refreshToken callback after getAccounts and the token
RefreshDone(s, t, result) ==
    IF result = "throw" THEN Throw(s, t)
    ELSE Then(VizStart(s, t), AfterViz)

\* the saved and recent connections the dialog can load
SavedConnections ==
    << [EmptyProfile EXCEPT !["authenticationType"] = "SqlLogin",
                            !["server"] = "v", !["user"] = "v"],
       [EmptyProfile EXCEPT !["authenticationType"] = "SqlLogin",
                            !["connectionString"] = "v"],
       [EmptyProfile EXCEPT !["authenticationType"] = "AzureMFA",
                            !["server"] = "v", !["accountId"] = "a2",
                            !["tenantId"] = "t2"] >>

\* loadConnection
LoadConnectionStart(s, t, i) ==
    LET connection == SavedConnections[i]
        s1 == [s EXCEPT !.connectionToEditCopy = i,
                        !.formError = Empty,
                        !.validation = ClearedMarks(s),
                        !.profile = connection,
                        !.mode = IF connection["connectionString"] # Empty
                                 THEN "ConnectionString" ELSE "Parameters"]
        t1 == Emit(t, "LoadConnection")
    IN  IF MissingActiveSpec(s)
        THEN Throw([s EXCEPT !.connectionToEditCopy = i,
                             !.formError = Empty,
                             !.validation = ClearedBeforeThrow(s)], t1)
        ELSE Then(VizStart(s1, t1), AfterViz)

\* addFirewallRule after constructAzureAccountForTenant
FirewallAccount(s, t, result) ==
    CASE result = "throw" ->
            Return([s EXCEPT !.formError = "errorCreatingFirewallRule",
                             !.dialog = NoDialog],
                   Emit(t, "AddFirewallRule.error"))
      [] result = "ok" -> Suspend(s, t, "fw_create")

\* addFirewallRule after createFirewallRule: the dialog is closed and the
\* connect flow runs again
FirewallCreate(s, t, result) ==
    CASE result = "throw" -> Throw(s, t)
      [] result = "failed" ->
            ConnectStart([s EXCEPT !.formError = "errorCreatingFirewallRule",
                                   !.dialog = NoDialog],
                         Emit(Emit([t EXCEPT !.ruleFailed = TRUE],
                                   "AddFirewallRule.error"),
                              "AddFirewallRule"))
      [] result = "ok" -> ConnectStart([s EXCEPT !.dialog = NoDialog],
                                       Emit(t, "AddFirewallRule"))

(***************************************************************************)
(* Actions.  Dispatch starts a handler in a free task; a Resume action is  *)
(* the return of an awaited call.  While a handler is between its          *)
(* updateState and its next await (pc co_validate) nothing else runs.      *)
(***************************************************************************)
Commit(id, r) ==
    /\ profile' = r.s.profile
    /\ mode' = r.s.mode
    /\ hidden' = r.s.hidden
    /\ validation' = r.s.validation
    /\ status' = r.s.status
    /\ formError' = r.s.formError
    /\ dialog' = r.s.dialog
    /\ accountOptions' = r.s.accountOptions
    /\ tenantOptions' = r.s.tenantOptions
    /\ refreshButton' = r.s.refreshButton
    /\ connectionToEditCopy' = r.s.connectionToEditCopy
    /\ panel' = r.s.panel
    /\ azureSubscriptions' = r.s.azureSubscriptions
    /\ azureServers' = r.s.azureServers
    /\ loadingAzureSubscriptionsStatus' = r.s.loadingAzureSubscriptionsStatus
    /\ loadingAzureServersStatus' = r.s.loadingAzureServersStatus
    /\ azureSubscriptionMap' = r.s.azureSubscriptionMap
    /\ missingSpecs' = r.s.missingSpecs
    /\ tasks' = [tasks EXCEPT ![id] =
                     CASE r.t.pc = "done" -> IdleTask
                       [] r.t.pc = "threw" ->
                            [IdleTask EXCEPT !.kind = r.t.kind,
                                             !.pc = "threw"]
                       [] OTHER -> r.t]
    /\ UNCHANGED <<arg, res>>

Running == \E id \in TaskIds : tasks[id].pc \in {"co_validate", "threw"}

\* the promise of a reducer that threw is rejected: the handler is over and
\* nothing in the controller has handled the failure
Rejected(id) ==
    /\ tasks[id].pc = "threw"
    /\ tasks' = [tasks EXCEPT ![id] = IdleTask]
    /\ UNCHANGED <<session, arg, res>>

\* the webview posts an action: the reducer starts in a free task
CanDispatch(id) ==
    /\ panel = "open"
    /\ ~Running
    /\ tasks[id].pc = "idle"
    /\ \A other \in TaskIds : other < id => tasks[other].pc # "idle"

Quiescent == \A id \in TaskIds : tasks[id].pc = "idle"

NewTask(kind) == [IdleTask EXCEPT !.kind = kind]

At(id, pc) == ~Running /\ tasks[id].pc = pc

SetConnectionInputType(id, inputMode) ==
    /\ CanDispatch(id)
    /\ Commit(id, SetInputTypeStart(Session, NewTask("setConnectionInputType"),
                                    inputMode))

FormActionEdit(id, propertyName, value) ==
    /\ CanDispatch(id)
    /\ Commit(id, FormEditStart(Session, NewTask("formAction"),
                                propertyName, value))

FormActionButton(id, propertyName, buttonId) ==
    /\ CanDispatch(id)
    /\ Commit(id, FormButtonStart(Session, NewTask("formAction"),
                                  propertyName, buttonId))

LoadConnection(id, i) ==
    /\ CanDispatch(id)
    /\ Commit(id, LoadConnectionStart(Session, NewTask("loadConnection"), i))

ConnectGuarded(id) ==
    /\ CanDispatch(id)
    /\ \A other \in TaskIds : tasks[other].pc = "idle"
    /\ Commit(id, ConnectStart(Session, NewTask("connect")))

\* connect: connectHelper is started whatever the connection status is and
\* whatever other handler is suspended
Connect(id) ==
    /\ CanDispatch(id)
    /\ Commit(id, ConnectStart(Session, NewTask("connect")))

\* the firewall dialog's button
AddFirewallRule(id) ==
    /\ CanDispatch(id)
    /\ dialog.type = "addFirewallRule"
    /\ Commit(id, Suspend(Session, NewTask("addFirewallRule"), "fw_account"))

\* closeDialog: a button of either recovery dialog
CloseDialog(id) ==
    /\ CanDispatch(id)
    /\ dialog.type # "none"
    /\ Commit(id, Return([Session EXCEPT !.dialog = NoDialog],
                         NewTask("closeDialog")))

ValidateStep(id) ==
    /\ tasks[id].pc = "co_validate"
    /\ Commit(id, ConnectValidate(Session, tasks[id]))

ResumeVizTenants(id, listingFails) ==
    /\ At(id, "viz_tenants")
    /\ Commit(id, Then(VizFinish(Session, tasks[id],
                                 getTenants(tasks[id].lookup, listingFails)),
                       AfterViz))

ResumeMfaTenants(id, listingFails) ==
    /\ At(id, "mfa_tenants")
    /\ Commit(id, Then(MfaTenants(Session, tasks[id],
                                  getTenants(tasks[id].lookup, listingFails)),
                       AfterMfa))

\* getAzureActionButtons returns: the refresh button is there when the
\* account is known and its token is expired; or one of its calls threw
ResumeMfaButtons(id, result) ==
    /\ At(id, "mfa_buttons")
    /\ result = "expired" => Includes(Accounts, profile["accountId"])
    /\ Commit(id, IF result = "throw" THEN Throw(Session, tasks[id])
                  ELSE AfterMfa([Session EXCEPT !.refreshButton =
                                                    (result = "expired")],
                                tasks[id]))

ResumeSignIn(id, result, account, listingFails) ==
    /\ At(id, "cb_signIn")
    /\ Commit(id, SignInDone(Session, tasks[id], result, account,
                             listingFails))

ResumeRefresh(id, result) ==
    /\ At(id, "cb_refresh")
    /\ Commit(id, RefreshDone(Session, tasks[id], result))

ResumeRemote(id, result) ==
    /\ At(id, "co_remote")
    /\ Commit(id, ConnectRemote(Session, tasks[id], result))

ResumeFirewall(id, result) ==
    /\ At(id, "co_firewall")
    /\ Commit(id, ConnectFirewall(Session, tasks[id], result))

ResumeFirewallAuth(id, result) ==
    /\ At(id, "co_firewallAuth")
    /\ Commit(id, ConnectFirewallAuth(Session, tasks[id], result))

ResumeSave(id, result) ==
    /\ ~Running
    /\ tasks[id].pc \in SavePcs
    /\ Commit(id, ConnectSave(Session, tasks[id], result))

ResumeReveal(id, result) ==
    /\ ~Running
    /\ tasks[id].pc \in RevealPcs
    /\ Commit(id, ConnectReveal(Session, tasks[id], result))

ResumeFwAccount(id, result) ==
    /\ At(id, "fw_account")
    /\ Commit(id, FirewallAccount(Session, tasks[id], result))

ResumeFwCreate(id, result) ==
    /\ At(id, "fw_create")
    /\ Commit(id, FirewallCreate(Session, tasks[id], result))

\* the state once initializeDialog has loaded the empty connection
InitSession ==
    /\ profile = [EmptyProfile EXCEPT !["authenticationType"] = "SqlLogin"]
    /\ mode = "Parameters"
    /\ hidden = {"accountId", "tenantId"}
    /\ validation = [f \in Fields |-> "none"]
    /\ status = "NotStarted"
    /\ formError = Empty
    /\ dialog = NoDialog
    /\ accountOptions = Accounts
    /\ tenantOptions = <<>>
    /\ refreshButton = FALSE
    /\ connectionToEditCopy = 0
    /\ panel = "open"
    /\ azureSubscriptions = <<>>
    /\ azureServers = <<>>
    /\ loadingAzureSubscriptionsStatus = "NotStarted"
    /\ loadingAzureServersStatus = "NotStarted"
    /\ azureSubscriptionMap = <<>>
    /\ tasks = [id \in TaskIds |-> IdleTask]

Init ==
    /\ InitSession
    /\ missingSpecs = {}
    /\ arg = NotRun
    /\ res = <<>>

ResumeAzureLoad(id, result) ==
    /\ At(id, "az_load")
    /\ Commit(id, AzureLoad(Session, tasks[id], result))

(***************************************************************************)
(* Loading the Azure subscriptions and their servers.  A server is         *)
(* [subscriptionId, server]; the promise of each subscription's fetch is   *)
(* kept in the handler as [state, servers].                                *)
(***************************************************************************)
RECURSIVE GroupedValues(_)
GroupedValues(rv) ==
    IF rv = <<>> THEN <<>> ELSE rv[1].vals \o GroupedValues(Tail(rv))

\* the subscription infos of the session: tenant group by tenant group
SubscriptionInfos(subscriptions) ==
    LET grouped == GroupedValues(groupBy(subscriptions))
    IN  [i \in 1..Len(grouped) |->
             [id |-> grouped[i].subscriptionId, loaded |-> FALSE]]

ServersOf(subscriptionId, count) ==
    [n \in 1..count |-> [subscriptionId |-> subscriptionId, server |-> n]]

MarkLoaded(infos, subscriptionId) ==
    [i \in 1..Len(infos) |->
         IF infos[i].id = subscriptionId
         THEN [infos[i] EXCEPT !.loaded = TRUE]
         ELSE infos[i]]

loadAzureServersMarksFailed(s, subscriptionId, result, servers) ==
    IF result = "ok"
    THEN [s EXCEPT !.azureServers = @ \o servers,
                   !.azureSubscriptions = MarkLoaded(@, subscriptionId)]
    ELSE [s EXCEPT !.azureSubscriptions = MarkLoaded(@, subscriptionId)]

\* loadAzureServersForSubscription once fetchServersFromAzure has settled:
\* the servers are pushed and the subscription marked, or the failure is
\* logged and nothing is written
loadAzureServersForSubscription(s, subscriptionId, result, servers) ==
    IF result = "ok"
    THEN [s EXCEPT !.azureServers = @ \o servers,
                   !.azureSubscriptions = MarkLoaded(@, subscriptionId)]
    ELSE s

Pending == [state |-> "pending", servers |-> <<>>]

Settled(fetches) == \A i \in DOMAIN fetches : fetches[i].state # "pending"

\* filterAzureSubscriptions up to its await of the filter prompt
FilterStart(s, t) == Suspend(s, t, "az_filter")

\* loadAllAzureServers up to loadAzureSubscriptions' await of the sign-in
AzStart(s, t) == Suspend(s, t, "az_signIn")

AzFilter(s, t, result) ==
    IF result = "throw" THEN Throw(s, t) ELSE AzStart(s, t)

\* the sign-in has settled: loadAzureSubscriptions up to getSubscriptions
AzSignIn(s, t, result) ==
    CASE result = "throw" ->
            Return([s EXCEPT !.formError = "errorLoadingDatabases",
                             !.loadingAzureSubscriptionsStatus = "Error",
                             !.loadingAzureServersStatus = "Error"], t)
      [] result = "notSignedIn" ->
            Return([s EXCEPT !.formError = "azureSignInFailed"], t)
      [] OTHER ->
            Suspend([s EXCEPT !.loadingAzureSubscriptionsStatus = "Loading"],
                    t, "az_subscriptions")

\* getSubscriptions has settled: the rest of loadAzureSubscriptions, then
\* loadAllAzureServers up to its await of the fetches
AzSubscriptions(s, t, result, subscriptions) ==
    IF result = "throw"
    THEN Return([s EXCEPT !.formError = "errorLoadingSubscriptions",
                          !.loadingAzureSubscriptionsStatus = "Error"], t)
    ELSE LET listed ==
                 [s EXCEPT !.azureSubscriptionMap = subscriptions,
                           !.azureSubscriptions =
                               SubscriptionInfos(subscriptions),
                           !.loadingAzureSubscriptionsStatus = "Loaded"]
         IN  IF subscriptions = <<>>
             THEN Return([listed EXCEPT !.formError = "noSubscriptions"], t)
             ELSE Suspend([listed EXCEPT
                              !.loadingAzureServersStatus = "Loading",
                              !.azureServers = <<>>],
                          [t EXCEPT !.fetches =
                              [i \in 1..Len(subscriptions) |-> Pending]],
                          "az_fetch")

\* one fetch has settled; Promise.all resolves after the last one
AzFetch(s, t, subscriptionId, result, servers) ==
    LET fetches == [t.fetches EXCEPT ![subscriptionId] =
                        [state |-> result, servers |-> servers]]
    IN  Suspend(loadAzureServersForSubscription(s, subscriptionId, result,
                                                servers),
                [t EXCEPT !.fetches = fetches],
                IF Settled(fetches) THEN "az_settled" ELSE "az_fetch")

\* loadAllAzureServers after Promise.all
AzSettled(s, t) == Return([s EXCEPT !.loadingAzureServersStatus = "Loaded"], t)

FilterAzureSubscriptions(id) ==
    /\ CanDispatch(id)
    /\ Commit(id, FilterStart(Session, NewTask("filterAzureSubscriptions")))

ResumeFilter(id, result) ==
    /\ At(id, "az_filter")
    /\ Commit(id, AzFilter(Session, tasks[id], result))

ResumeAzSignIn(id, result) ==
    /\ At(id, "az_signIn")
    /\ Commit(id, AzSignIn(Session, tasks[id], result))

ResumeAzSubscriptions(id, result, subscriptions) ==
    /\ At(id, "az_subscriptions")
    /\ Commit(id, AzSubscriptions(Session, tasks[id], result, subscriptions))

ResumeAzFetch(id, subscriptionId, result, servers) ==
    /\ At(id, "az_fetch")
    /\ subscriptionId \in DOMAIN tasks[id].fetches
    /\ tasks[id].fetches[subscriptionId].state = "pending"
    /\ Commit(id, AzFetch(Session, tasks[id], subscriptionId, result,
                          servers))

ResumeAzSettled(id) ==
    /\ At(id, "az_settled")
    /\ Commit(id, AzSettled(Session, tasks[id]))

\* the loadAzureServers reducer: loadAzureServersForSubscription up to its
\* await of the fetch.  azSub and stateSub are looked up before the await
\* and are undefined when the id is not among the subscriptions
LoadServersStart(s, t, subscriptionId) ==
    Suspend(s,
            [t EXCEPT !.subscriptionId = subscriptionId,
                      !.azSub = subscriptionId \in
                                    {s.azureSubscriptionMap[i].subscriptionId :
                                         i \in DOMAIN s.azureSubscriptionMap},
                      !.stateSub = subscriptionId \in
                                       {s.azureSubscriptions[i].id :
                                            i \in DOMAIN s.azureSubscriptions}],
            "fetchServersFromAzure")

\* the catch of loadAzureServersForSubscription reads azSub.name: a
\* TypeError out of the handler when azSub is undefined
LoadServersCatch(s, t) ==
    IF t.azSub THEN Return(s, t) ELSE Throw(s, t)

\* the fetch has settled: the servers are pushed, stateSub.loaded is set (a
\* TypeError when stateSub is undefined) and azSub.name is logged (a
\* TypeError when azSub is undefined); a throw of the fetch or of these
\* statements goes to the catch
LoadServersFetched(s, t, result, servers) ==
    IF result # "ok" THEN LoadServersCatch(s, t)
    ELSE LET pushed == [s EXCEPT !.azureServers = @ \o servers]
         IN  IF ~t.stateSub THEN LoadServersCatch(pushed, t)
             ELSE LET marked ==
                          [pushed EXCEPT !.azureSubscriptions =
                                             MarkLoaded(@, t.subscriptionId)]
                  IN  IF t.azSub THEN Return(marked, t)
                      ELSE LoadServersCatch(marked, t)

LoadAzureServers(id, subscriptionId) ==
    /\ CanDispatch(id)
    /\ Commit(id, LoadServersStart(Session, NewTask("loadAzureServers"),
                                   subscriptionId))

ResumeLoadServers(id, result, servers) ==
    /\ At(id, "fetchServersFromAzure")
    /\ Commit(id, LoadServersFetched(Session, tasks[id], result, servers))

(***************************************************************************)
(* Spec: the connect flow and its recovery dialogs over SQL-login and      *)
(* connection-string sessions.                                             *)
(***************************************************************************)
ConnectEdits ==
    {<<"connectionString", "v">>}

Dispatch(id) ==
    \/ \E m \in InputModes : SetConnectionInputType(id, m)
    \/ \E e \in ConnectEdits : FormActionEdit(id, e[1], e[2])
    \/ \E i \in {1, 2} : LoadConnection(id, i)
    \/ Connect(id)
    \/ AddFirewallRule(id)
    \/ CloseDialog(id)

Resume(id) ==
    \/ Rejected(id)
    \/ ValidateStep(id)
    \/ \E r \in {"ok", "certError", "firewallError", "otherError", "throw"} :
           ResumeRemote(id, r)
    \/ \E r \in {"detected", "notDetected", "throw"} : ResumeFirewall(id, r)
    \/ \E r \in {"tenants", "notSignedIn", "throw"} :
           ResumeFirewallAuth(id, r)
    \/ \E r \in {"ok", "throw"} : ResumeSave(id, r)
    \/ \E r \in {"ok", "throw"} : ResumeReveal(id, r)
    \/ \E r \in {"ok", "throw"} : ResumeFwAccount(id, r)
    \/ \E r \in {"ok", "failed", "throw"} : ResumeFwCreate(id, r)
    \/ \E r \in {"loaded"} : ResumeAzureLoad(id, r)

Next == \E id \in TaskIds : Dispatch(id) \/ Resume(id)

Spec == Init /\ [][Next]_vars

(***************************************************************************)
(* SpecConnect: the connect flow one action at a time, on a form built     *)
(* with or without the optional main options.  Every awaited call returns  *)
(* or throws.                                                              *)
(***************************************************************************)
MissingSpecSets == {{}} \cup {{o} : o \in OptionalMainOptions}

InitConnect ==
    /\ InitSession
    /\ missingSpecs \in MissingSpecSets
    /\ arg = NotRun
    /\ res = <<>>

NextConnect == \E id \in TaskIds : (Quiescent /\ Dispatch(id)) \/ Resume(id)

SpecConnect ==
    InitConnect /\ [][NextConnect]_vars
        /\ \A id \in TaskIds : WF_vars(Resume(id))

(***************************************************************************)
(* SpecForm: the form engine (edits, visibility, the Azure account and     *)
(* tenant fields) without the connect flow.                                *)
(***************************************************************************)
FormEdits ==
    {<<"authenticationType", a>> : a \in AuthenticationTypes}
        \cup {<<"accountId", "a2">>}

DispatchForm(id) ==
    \/ \E m \in InputModes : SetConnectionInputType(id, m)
    \/ \E e \in FormEdits : FormActionEdit(id, e[1], e[2])
    \/ \E b \in {"azureSignIn", "refreshToken"} :
           FormActionButton(id, "accountId", b)
    \/ LoadConnection(id, 3)

ResumeForm(id) ==
    \/ Rejected(id)
    \/ \E fails \in BOOLEAN : ResumeVizTenants(id, fails)
    \/ \E fails \in BOOLEAN : ResumeMfaTenants(id, fails)
    \/ \E r \in {"fresh", "expired", "throw"} : ResumeMfaButtons(id, r)
    \/ \E r \in {"ok", "throw"}, fails \in BOOLEAN :
           ResumeSignIn(id, r, "a2", fails)
    \/ \E r \in {"ok", "throw"} : ResumeRefresh(id, r)
    \/ \E r \in {"loaded"} : ResumeAzureLoad(id, r)

NextForm == \E id \in TaskIds : DispatchForm(id) \/ ResumeForm(id)

SpecForm == Init /\ [][NextForm]_vars

(***************************************************************************)
(* SpecMfa: the form engine one action at a time, with the edits of the    *)
(* three fields handleAzureMFAEdits reacts to, in every input mode.        *)
(***************************************************************************)
MfaEdits ==
    FormEdits \cup {<<"accountId", "a1">>, <<"tenantId", "t2">>,
                    <<"accountId", Empty>>}

DispatchMfa(id) ==
    \/ \E m \in InputModes : SetConnectionInputType(id, m)
    \/ \E e \in MfaEdits : FormActionEdit(id, e[1], e[2])
    \/ \E b \in {"azureSignIn", "refreshToken"} :
           FormActionButton(id, "accountId", b)
    \/ LoadConnection(id, 3)

NextMfa == \E id \in TaskIds : (Quiescent /\ DispatchMfa(id)) \/ ResumeForm(id)

SpecMfa == Init /\ [][NextMfa]_vars

(***************************************************************************)
(* ExtConfig.  A JavaScript value is a string here: "undefined", "null",   *)
(* "false", "zero" and "" are the falsy ones.  A configuration is a        *)
(* function from keys to values, "undefined" where the key is not set.     *)
(***************************************************************************)
Falsy == {"undefined", "null", "false", "zero", ""}

\* `${Constants.sqlToolsServiceConfigKey}.${configKey}`
SettingKey(configKey) == <<"service", configKey>>

getExtensionConfig(extensionConfig, key, defaultValue) ==
    IF extensionConfig[key] = "undefined" THEN defaultValue
    ELSE extensionConfig[key]

getWorkspaceConfig(workspaceConfig, key, defaultValue) ==
    IF workspaceConfig[key] = "undefined" THEN defaultValue
    ELSE workspaceConfig[key]

getSqlToolsConfigValueUndefinedOnly(extensionConfig, config, configKey) ==
    LET configValue ==
            getExtensionConfig(extensionConfig, SettingKey(configKey),
                               "undefined")
    IN  IF configValue = "undefined" THEN config[configKey] ELSE configValue

getSqlToolsConfigValue(extensionConfig, config, configKey) ==
    LET configValue ==
            getExtensionConfig(extensionConfig, SettingKey(configKey),
                               "undefined")
    IN  IF configValue \in Falsy THEN config[configKey] ELSE configValue

(***************************************************************************)
(* The pure functions, each applied to inputs drawn by Init.  The session  *)
(* stays as constructed.                                                   *)
(***************************************************************************)
Harness(inputs) ==
    InitSession /\ missingSpecs = {} /\ arg \in inputs /\ res = <<>>

\* SpecGroupBy: groupBy on lists of subscriptions of three tenants; a
\* subscription's id is its place in the list
MaxSubs == 4

TenantIds == {"t1", "t2", "t3"}

SubscriptionLists ==
    UNION {{[i \in 1..k |-> [tenantId |-> f[i], subscriptionId |-> i]] :
               f \in [1..k -> TenantIds]} : k \in 0..MaxSubs}

ApplyGroupBy ==
    /\ res = <<>>
    /\ res' = <<groupBy(arg)>>
    /\ UNCHANGED <<session, tasks, arg>>

SpecGroupBy == Harness(SubscriptionLists) /\ [][ApplyGroupBy]_vars

\* SpecCompile: generateConnectionComponents on lists of capability
\* descriptors; categoryValues is "list" or Undefined
MaxOptions == 3

Descriptor(name, valueType, categoryValues) ==
    [name |-> name, valueType |-> valueType, groupName |-> "g",
     categoryValues |-> categoryValues]

Descriptors ==
    {Descriptor("server", "string", Undefined),
     Descriptor("user", "string", Undefined),
     Descriptor("port", "number", Undefined),
     Descriptor("port", "object", Undefined),
     Descriptor("encrypt", "category", "list"),
     Descriptor("encrypt", "category", Undefined)}

ApplyCompile ==
    /\ res = <<>>
    /\ res' = <<generateConnectionComponents(arg)>>
    /\ UNCHANGED <<session, tasks, arg>>

SpecCompile == Harness(SeqsUpTo(Descriptors, MaxOptions)) /\ [][ApplyCompile]_vars

\* SpecGroup: the capabilities list server, user and up to MaxGrouped more
\* options; the field map is compiled and its advanced options are grouped
MaxGrouped == 4

GroupedDescriptor(name, valueType, groupName) ==
    [Descriptor(name, valueType, Undefined) EXCEPT !.groupName = groupName]

GroupedDescriptors ==
    {GroupedDescriptor("encrypt", "string", "security"),
     GroupedDescriptor("port", "number", "initialization"),
     GroupedDescriptor("port", "object", "initialization"),
     GroupedDescriptor("columnEncryption", "string", "security"),
     GroupedDescriptor("packetSize", "number", "initialization"),
     GroupedDescriptor("pooling", "boolean", "pooling"),
     GroupedDescriptor("attachDbFilename", "string", "source"),
     GroupedDescriptor("replication", "boolean", "custom")}

CapabilityLists ==
    {<<Descriptor("server", "string", Undefined),
       Descriptor("user", "string", Undefined)>> \o more :
        more \in SeqsUpTo(GroupedDescriptors, MaxGrouped)}

ApplyGroup ==
    /\ res = <<>>
    /\ LET components == generateConnectionComponents(arg).components
       IN  res' = <<components, groupAdvancedOptions(components)>>
    /\ UNCHANGED <<session, tasks, arg>>

SpecGroup == Harness(CapabilityLists) /\ [][ApplyGroup]_vars

\* SpecExtConfig: an ExtConfig over settings and a config.json of two keys;
\* the three getters are called with one key and one default
ConfigKeys == {"downloadUrl", "installDirectory"}

SettingValues == Falsy \cup {"set"}

ExtConfigInputs ==
    {[extensionConfig |-> [k \in {SettingKey(c) : c \in ConfigKeys} |->
                               IF k = SettingKey("downloadUrl") THEN e1 ELSE e2],
      workspaceConfig |-> [k \in {SettingKey(c) : c \in ConfigKeys} |->
                               IF k = SettingKey("downloadUrl") THEN w ELSE e2],
      config |-> [c \in ConfigKeys |->
                     IF c = "downloadUrl" THEN "json1" ELSE "json2"],
      configKey |-> key,
      defaultValue |-> d] :
        e1 \in SettingValues, e2 \in SettingValues, w \in SettingValues,
        key \in ConfigKeys, d \in {"undefined", "default"}}

ApplyExtConfig ==
    /\ res = <<>>
    /\ res' = <<[sqlTools |-> getSqlToolsConfigValue(arg.extensionConfig,
                                                     arg.config,
                                                     arg.configKey),
                 extension |-> getExtensionConfig(arg.extensionConfig,
                                                  SettingKey(arg.configKey),
                                                  arg.defaultValue),
                 workspace |-> getWorkspaceConfig(arg.workspaceConfig,
                                                  SettingKey(arg.configKey),
                                                  arg.defaultValue)]>>
    /\ UNCHANGED <<session, tasks, arg>>

SpecExtConfig == Harness(ExtConfigInputs) /\ [][ApplyExtConfig]_vars

\* SpecClean: cleanConnection, once and then again on its own result, for
\* every set of hidden flags updateItemVisibility can write
CleanProfiles ==
    {p \in [Fields -> {Empty, "v", "SqlLogin"}] :
        /\ p["authenticationType"] = "SqlLogin"
        /\ \A f \in Fields \ {"authenticationType"} : p[f] # "SqlLogin"}

HiddenSets ==
    {HiddenBeforeLookup(m, a) : m \in InputModes, a \in AuthenticationTypes}
        \cup {HiddenAfterLookup(HiddenBeforeLookup("Parameters", "AzureMFA"),
                                <<"t1">>)}

ApplyClean ==
    /\ Len(res) < 2
    /\ res' = Append(res, cleanConnection(IF res = <<>> THEN arg.connection
                                          ELSE res[Len(res)],
                                          arg.hiddenFields, arg.inputMode))
    /\ UNCHANGED <<session, tasks, arg>>

SpecClean ==
    /\ Harness([connection : CleanProfiles, hiddenFields : HiddenSets,
                inputMode : InputModes])
    /\ [][ApplyClean]_vars

\* SpecValidate: a profile is installed, updateItemVisibility runs to its
\* end and the whole form is validated
ValidateProfiles ==
    {[EmptyProfile EXCEPT !["authenticationType"] = a, !["server"] = sv,
                          !["user"] = u, !["accountId"] = ac,
                          !["tenantId"] = tn] :
        a \in AuthenticationTypes, sv \in {Empty, "v"}, u \in {Empty, "v"},
        ac \in {Empty, "a1", "a2"}, tn \in {Empty, "t1", "t2"}}

InitValidate ==
    /\ InitSession
    /\ missingSpecs = {}
    /\ arg = "installed"
    /\ res = <<>>

InstallProfile ==
    /\ arg = "installed"
    /\ \E p \in ValidateProfiles, m \in InputModes :
           /\ profile' = p
           /\ mode' = m
    /\ arg' = "stale"
    /\ UNCHANGED <<hidden, validation, status, formError, dialog,
                   accountOptions, tenantOptions, refreshButton,
                   connectionToEditCopy,
                   panel, azure, missingSpecs, tasks, res>>

ApplyVisibility ==
    /\ arg = "stale"
    /\ \E listingFails \in BOOLEAN :
           LET r == VizStart(Session, IdleTask)
           IN  hidden' = IF r.t.pc = "viz_tenants"
                         THEN VizFinish(r.s, r.t,
                                        getTenants(r.t.lookup,
                                                   listingFails)).s.hidden
                         ELSE r.s.hidden
    /\ arg' = "visible"
    /\ UNCHANGED <<profile, mode, validation, status, formError, dialog,
                   accountOptions, tenantOptions, refreshButton,
                   connectionToEditCopy,
                   panel, azure, missingSpecs, tasks, res>>

ApplyValidate ==
    /\ arg = "visible"
    /\ res' = <<ErroredInputs(Session, profile)>>
    /\ validation' = ValidateAll(Session, profile)
    /\ arg' = "validated"
    /\ UNCHANGED <<profile, mode, hidden, status, formError, dialog,
                   accountOptions, tenantOptions, refreshButton,
                   connectionToEditCopy,
                   panel, azure, missingSpecs, tasks>>

NextValidate == InstallProfile \/ ApplyVisibility \/ ApplyValidate

SpecValidate == InitValidate /\ [][NextValidate]_vars

(***************************************************************************)
(* SpecServers: the subscription filter reloads all the servers, one load  *)
(* at a time.  The fetches of a load settle in any order.                  *)
(***************************************************************************)
MaxBatch == 3

MaxServers == 1

BatchTenants == {"t1", "t2"}

BatchLists ==
    UNION {{[i \in 1..k |-> [tenantId |-> f[i], subscriptionId |-> i]] :
               f \in [1..k -> BatchTenants]} : k \in 0..MaxBatch}

DispatchServers(id) == Quiescent /\ FilterAzureSubscriptions(id)

ResumeServers(id) ==
    \/ Rejected(id)
    \/ \E r \in {"ok", "throw"} : ResumeFilter(id, r)
    \/ \E r \in {"ok", "notSignedIn", "throw"} : ResumeAzSignIn(id, r)
    \/ \E subscriptions \in BatchLists :
           ResumeAzSubscriptions(id, "ok", subscriptions)
    \/ ResumeAzSubscriptions(id, "throw", <<>>)
    \/ \E subscriptionId \in 1..MaxBatch :
           \/ \E count \in 0..MaxServers :
                  ResumeAzFetch(id, subscriptionId, "ok",
                                ServersOf(subscriptionId, count))
           \/ ResumeAzFetch(id, subscriptionId, "threw", <<>>)
    \/ ResumeAzSettled(id)

NextServers == \E id \in TaskIds : DispatchServers(id) \/ ResumeServers(id)

SpecServers == Init /\ [][NextServers]_vars

(***************************************************************************)
(* SpecLoad: SpecServers with the loadAzureServers action for one          *)
(* subscription, for an id of the last listing or for another one, before  *)
(* and after a load of all the servers.  One action at a time; the server  *)
(* list is loaded up to MaxListed entries.                                 *)
(***************************************************************************)
MaxListed == 4

SubscriptionIds == 1..MaxBatch

DispatchLoad(id) ==
    /\ Quiescent
    /\ \/ FilterAzureSubscriptions(id)
       \/ /\ Len(azureServers) < MaxListed
          /\ \E subscriptionId \in SubscriptionIds :
                 LoadAzureServers(id, subscriptionId)

\* the fetch of a subscription returns its servers or throws; the fetch of
\* undefined has no subscription to query and throws
ResumeLoad(id) ==
    \/ ResumeServers(id)
    \/ /\ tasks[id].azSub
       /\ \E count \in 0..MaxServers :
              ResumeLoadServers(id, "ok",
                                ServersOf(tasks[id].subscriptionId, count))
    \/ ResumeLoadServers(id, "threw", <<>>)

NextLoad == \E id \in TaskIds : DispatchLoad(id) \/ ResumeLoad(id)

SpecLoad == Init /\ [][NextLoad]_vars

(***************************************************************************)
(* Properties of the pure functions.                                       *)
(***************************************************************************)

\* C9: grouping subscriptions by tenant id gives one group for each tenant
\* id that occurs in the list and none for any other, and each group holds
\* the tenant's subscriptions in the order of the list.
C9_GroupByTenant ==
    res # <<>> =>
        LET m == res[1] IN
        /\ {m[j].key : j \in 1..Len(m)}
               = {arg[i].tenantId : i \in 1..Len(arg)}
        /\ \A j, k \in 1..Len(m) : m[j].key = m[k].key => j = k
        /\ \A j \in 1..Len(m) :
               m[j].vals = SelectSeq(arg, LAMBDA x : x.tenantId = m[j].key)

\* three tenants are known, two subscriptions are of one and one of another
C9_TwoGroups ==
    /\ res # <<>>
    /\ Len(arg) = 3
    /\ Len(res[1]) = 2
    /\ Len(res[1][1].vals) = 2
    /\ res[1][1].vals[1].subscriptionId = 1
    /\ res[1][1].vals[2].subscriptionId = 3

IsUnknownKind(option) == option.valueType \notin KnownValueTypes

HasOption(options, name) ==
    \E i \in 1..Len(options) :
        options[i].name = name /\ ~IsUnknownKind(options[i])

DistinctNames(options) ==
    \A i, j \in 1..Len(options) : options[i].name = options[j].name => i = j

\* C2: compiling a list of descriptors (with distinct names, server and
\* user among them) does not throw on a descriptor of unknown value type,
\* the field map has no entry under that descriptor's name, and it has an
\* entry for every descriptor whose conversion succeeds.
C2_UnknownKindOmitted ==
    (res # <<>> /\ DistinctNames(arg)
         /\ HasOption(arg, "server") /\ HasOption(arg, "user")) =>
        /\ ~res[1].threw
        /\ \A i \in 1..Len(arg) :
               IF IsUnknownKind(arg[i])
               THEN ~ObjHas(res[1].components, arg[i].name)
               ELSE convertToFormComponent(arg[i]).outcome = "spec"
                        => ObjHas(res[1].components, arg[i].name)

\* C5: in ConnectionString mode cleanConnection leaves connectionString and
\* profileName as they were and clears every other field.
C5_CleanConnectionString ==
    (res # <<>> /\ arg.inputMode = "ConnectionString") =>
        \A f \in Fields :
            res[1][f] = IF f \in {"connectionString", "profileName"}
                        THEN arg.connection[f] ELSE Empty

C5_CleanedStringProfile ==
    /\ res # <<>>
    /\ arg.inputMode = "ConnectionString"
    /\ arg.connection["connectionString"] # Empty
    /\ arg.connection["profileName"] # Empty
    /\ arg.connection["server"] # Empty
    /\ arg.hiddenFields # {}
    /\ res[1]["server"] = Empty

\* C6 as stated: in Parameters mode cleanConnection clears connectionString
\* and leaves every other field as it was.
C6_CleanKeepsStructured ==
    (res # <<>> /\ arg.inputMode = "Parameters") =>
        /\ res[1]["connectionString"] = Empty
        /\ \A f \in Fields \ {"connectionString"} :
               res[1][f] = arg.connection[f]

\* C6: in Parameters mode cleanConnection clears connectionString and every
\* hidden field, and leaves every other field as it was.
C6_CleanKeepsVisibleStructured ==
    (res # <<>> /\ arg.inputMode = "Parameters") =>
        /\ res[1]["connectionString"] = Empty
        /\ \A f \in Fields \ {"connectionString"} :
               res[1][f] = IF f \in arg.hiddenFields
                           THEN Empty ELSE arg.connection[f]

C6_CleanedHiddenUser ==
    /\ res # <<>>
    /\ arg.inputMode = "Parameters"
    /\ "user" \in arg.hiddenFields
    /\ arg.connection["user"] # Empty
    /\ arg.connection["server"] # Empty
    /\ arg.connection["connectionString"] # Empty
    /\ res[1]["user"] = Empty
    /\ res[1]["server"] # Empty

\* C7: cleanConnection is idempotent: cleaning a cleaned profile, under the
\* same input mode and hidden flags, changes nothing.
C7_CleanIdempotent == Len(res) = 2 => res[2] = res[1]

C7_CleanedTwice ==
    /\ Len(res) = 2
    /\ res[1] # arg.connection
    /\ res[1] # EmptyProfile

\* C3: in Parameters mode, with the visibility of the profile, whole-form
\* validation reports exactly server and user for SQL login with empty
\* server and user, and reports nothing for Azure MFA with an account and
\* a tenant.
C3_WholeFormValidation ==
    (arg = "validated" /\ mode = "Parameters") =>
        /\ (/\ profile["authenticationType"] = "SqlLogin"
            /\ profile["server"] = Empty
            /\ profile["user"] = Empty)
               => res[1] = <<"server", "user">>
        /\ (/\ profile["authenticationType"] = "AzureMFA"
            /\ profile["accountId"] # Empty
            /\ profile["tenantId"] # Empty)
               => res[1] = <<>>

C3_SqlLoginBothReported ==
    /\ arg = "validated"
    /\ mode = "Parameters"
    /\ profile["authenticationType"] = "SqlLogin"
    /\ profile["server"] = Empty
    /\ profile["user"] = Empty
    /\ validation["server"] = "invalid"
    /\ validation["user"] = "invalid"
    /\ Len(res[1]) = 2

(***************************************************************************)
(* Properties of the connect flow (Spec) and of the form (SpecForm).       *)
(***************************************************************************)

\* C1: a connect whose whole-form validation of the cleaned profile reports
\* a field takes the status from Loading to Error, marks the reported
\* fields invalid and ends there: it never calls the remote
\* validate-and-save.
C1_InvalidConnectStops ==
    [][\A id \in TaskIds :
           LET erroredInputs ==
                   ErroredInputs(Session,
                                 cleanConnection(profile, hidden, mode))
           IN  (tasks[id].pc = "co_validate" /\ erroredInputs # <<>>) =>
                   /\ status = "Loading"
                   /\ status' = "Error"
                   /\ \A f \in Range(erroredInputs) :
                          validation'[f] = "invalid"
                   /\ tasks'[id].pc = "idle"]_vars

\* a connect with SQL login and no server has ended
C1_InvalidConnectEnded ==
    /\ Quiescent
    /\ status = "Error"
    /\ mode = "Parameters"
    /\ profile["authenticationType"] = "SqlLogin"
    /\ profile["server"] = Empty
    /\ validation["server"] = "invalid"
    /\ formError = Empty
    /\ dialog = NoDialog

\* C8: the profile a connect hands to the remote validate-and-save has no
\* connectionString in Parameters and AzureBrowse mode, and nothing but
\* connectionString and profileName in ConnectionString mode; it never
\* has both a connectionString and another field than profileName.
C8_HandedProfileOneKind ==
    /\ [](\A id \in TaskIds :
              tasks[id].pc = "co_remote" =>
                  \/ tasks[id].cleaned["connectionString"] = Empty
                  \/ \A f \in Fields \ {"connectionString", "profileName"} :
                         tasks[id].cleaned[f] = Empty)
    /\ [][\A id \in TaskIds :
              (tasks[id].pc # "co_remote" /\ tasks'[id].pc = "co_remote") =>
                  /\ IsFormMode(mode) =>
                         tasks'[id].cleaned["connectionString"] = Empty
                  /\ mode = "ConnectionString" =>
                         \A f \in Fields \ {"connectionString", "profileName"} :
                             tasks'[id].cleaned[f] = Empty]_vars

\* a profile with a server and a connection string is handed over in
\* ConnectionString mode
C8_HandedStringProfile ==
    \E id \in TaskIds :
        /\ tasks[id].pc = "co_remote"
        /\ mode = "ConnectionString"
        /\ profile["server"] # Empty
        /\ profile["connectionString"] # Empty
        /\ tasks[id].cleaned["connectionString"] # Empty
        /\ tasks[id].cleaned["server"] = Empty

\* C10: after the firewall error, when the client IP is not detected the
\* task carries "0.0.0.0" and otherwise the detected IP, and the connect
\* ends with status Error and the add-firewall-rule dialog holding that IP
\* and the tenants of the signed-in identity.
C10_FirewallDialogOpens ==
    [][\A id \in TaskIds :
           /\ ResumeFirewall(id, "notDetected") =>
                  tasks'[id].clientIp = "0.0.0.0"
           /\ ResumeFirewall(id, "detected") =>
                  tasks'[id].clientIp = "10.0.0.1"
           /\ (tasks[id].pc = "co_firewallAuth" /\ tasks'[id].pc = "idle") =>
                  /\ status' = "Error"
                  /\ dialog'.type = "addFirewallRule"
                  /\ dialog'.clientIp = tasks[id].clientIp
                  /\ dialog'.tenants = SignedInTenants]_vars

Visible(hiddenFields) == Fields \ hiddenFields

\* the hidden flags after setConnectionInputType(ConnectionString) and then
\* setConnectionInputType(Parameters), each run to its end
RoundTripHidden(s, listingFails) ==
    LET t  == NewTask("setConnectionInputType")
        r1 == SetInputTypeStart(s, t, "ConnectionString")
        r2 == SetInputTypeStart(r1.s, t, "Parameters")
    IN  IF r2.t.pc = "viz_tenants"
        THEN VizFinish(r2.s, r2.t,
                       getTenants(r2.t.lookup, listingFails)).s.hidden
        ELSE r2.s.hidden

\* C4: in Parameters mode with no handler in flight, switching to
\* ConnectionString and back leaves the visible fields as they were, for
\* the answer the tenant lookup gave when the flags were written.
C4_RoundTripRestoresVisible ==
    (Quiescent /\ mode = "Parameters" /\ panel = "open") =>
        \E listingFails \in BOOLEAN :
            Visible(RoundTripHidden(Session, listingFails)) = Visible(hidden)

\* C11: an addFirewallRule handler never completes before it has entered
\* the connect flow: it does not end at the construction of the account and
\* token, nor at the creation of the rule.
C11_FirewallRuleRetriesConnect ==
    [][\A id \in TaskIds :
           (tasks[id].kind = "addFirewallRule" /\ tasks'[id].pc = "idle") =>
               tasks[id].pc \notin {"fw_account", "fw_create"}]_vars

\* C12: when createFirewallRule reported a failure, the session the
\* addFirewallRule handler leaves as it completes has no dialog and has the
\* form error of the firewall rule.
C12_RuleFailureSurfaced ==
    [][\A id \in TaskIds :
           (/\ tasks[id].kind = "addFirewallRule"
            /\ tasks[id].ruleFailed
            /\ tasks'[id].pc = "idle") =>
               /\ dialog' = NoDialog
               /\ formError' = "errorCreatingFirewallRule"]_vars

(***************************************************************************)
(* Properties of the loading of the Azure servers (SpecServers).           *)
(***************************************************************************)
ServersFrom(subscriptionId) ==
    {x \in Range(azureServers') : x.subscriptionId = subscriptionId}

LoadedFlag(subscriptionId) ==
    \E i \in 1..Len(azureSubscriptions') :
        /\ azureSubscriptions'[i].id = subscriptionId
        /\ azureSubscriptions'[i].loaded

\* C13: when a load of all the servers completes, whatever fetches threw,
\* the server-loading status is Loaded, the server list holds exactly the
\* servers of the subscriptions whose fetch returned, and a subscription's
\* loaded flag is true exactly when its fetch returned.
C13_BatchSurvivesFailedFetches ==
    [][\A id \in TaskIds :
           (tasks[id].pc = "az_settled" /\ tasks'[id].pc = "idle") =>
               /\ loadingAzureServersStatus' = "Loaded"
               /\ Len(azureSubscriptions') = Len(tasks[id].fetches)
               /\ \A sub \in DOMAIN tasks[id].fetches :
                      LET fetch == tasks[id].fetches[sub]
                      IN  IF fetch.state = "ok"
                          THEN /\ ServersFrom(sub) = Range(fetch.servers)
                               /\ LoadedFlag(sub)
                          ELSE /\ ServersFrom(sub) = {}
                               /\ ~LoadedFlag(sub)]_vars

\* a load over three subscriptions has completed with one fetch failed and
\* the servers of the two others listed
C13_ThreeSubscriptionsOneFailed ==
    /\ Quiescent
    /\ loadingAzureServersStatus = "Loaded"
    /\ Len(azureSubscriptions) = 3
    /\ Cardinality({i \in 1..3 : azureSubscriptions[i].loaded}) = 2
    /\ Cardinality({x.subscriptionId : x \in Range(azureServers)}) = 2

\* C14: the session holds one dialog field, whose type is none,
\* trustServerCert or addFirewallRule; the closeDialog handler leaves it at
\* none, with the connection status not Loading.
C14_CloseDialogReady ==
    [][/\ dialog'.type \in {"none", "trustServerCert", "addFirewallRule"}
       /\ \A id \in TaskIds :
              CloseDialog(id) =>
                  /\ dialog' = NoDialog
                  /\ status' # "Loading"]_vars

\* the hidden fields updateItemVisibility computes for a mode and a profile,
\* for one answer of the tenant lookup
HiddenFor(inputMode, connectionProfile, listingFails) ==
    IF NeedsTenantLookup(inputMode, connectionProfile["authenticationType"])
    THEN HiddenAfterLookup(
             HiddenBeforeLookup(inputMode,
                                connectionProfile["authenticationType"]),
             getTenants(connectionProfile["accountId"], listingFails))
    ELSE HiddenBeforeLookup(inputMode,
                            connectionProfile["authenticationType"])

ExpectedHidden(listingFails) == HiddenFor(mode, profile, listingFails)

\* C15: with no handler in flight and the input mode Parameters or
\* AzureBrowse, the hidden fields are those of the authentication type, with
\* tenantId hidden for an Azure-MFA account of exactly one tenant (a failed
\* lookup lists no tenant).
C15_HiddenMatchesSession ==
    (Quiescent /\ IsFormMode(mode)) =>
        \E listingFails \in BOOLEAN : hidden = ExpectedHidden(listingFails)

OthersIdle(id) == \A other \in TaskIds \ {id} : tasks[other].pc = "idle"

\* a formAction or setConnectionInputType handler writes a field or the
\* mode and stops at an await
WritesAndSuspends(id) ==
    /\ tasks'[id].kind \in {"formAction", "setConnectionInputType"}
    /\ tasks'[id].pc # "idle"
    /\ profile' # profile \/ mode' # mode

\* C16: when a field edit or a change of input mode writes its value into a
\* session whose hidden flags were up to date, the handler does not reach an
\* await with the flags still those of the session before the write.
C16_NoStaleVisibilityWindow ==
    [][\A id \in TaskIds :
           (/\ OthersIdle(id)
            /\ \E listingFails \in BOOLEAN :
                   hidden = HiddenFor(mode, profile, listingFails)
            /\ WritesAndSuspends(id)) =>
               \E listingFails \in BOOLEAN :
                   hidden' = HiddenFor(mode', profile', listingFails)]_vars

\* C17: a step that writes the session is taken by the only handler in
\* flight: no handler is suspended at a remote call while another handler
\* writes the session.
C17_OneWriterAtATime ==
    [][session' # session =>
           \A id \in TaskIds :
               tasks[id].pc # "idle" => tasks'[id] # tasks[id]]_vars

\* C18: a connect handler never ends by throwing; one that has started
\* ends, and the step that ends it leaves the connection status Error or
\* Loaded.
C18_ConnectEnds ==
    /\ [][\A id \in TaskIds :
              /\ tasks'[id].kind = "connect" => tasks'[id].pc # "threw"
              /\ (tasks[id].kind = "connect" /\ tasks'[id].pc = "idle") =>
                     status' \in {"Error", "Loaded"}]_vars
    /\ \A id \in TaskIds :
           (tasks[id].kind = "connect") ~> (tasks[id].pc = "idle")

\* the effects of a successful connect, in the order of connectHelper
SuccessEffects(editing) ==
    (IF editing THEN <<"removeConnectionNodes", "removeProfile">> ELSE <<>>)
        \o <<"saveProfile", "createObjectExplorerSessionFromDialog",
             "updateLoadedConnections", "Loaded", "reveal", "dispose",
             "promptUserForNPSFeedback">>

IsPrefix(a, b) == Len(a) <= Len(b) /\ \A i \in 1..Len(a) : a[i] = b[i]

\* C19: the effects a connect has done after the remote validate-and-save
\* succeeded are, in this order, the removal of the session node and of the
\* profile of the connection under edit (when there is one), saveProfile,
\* the session node, the reload of the lists, status Loaded, reveal, dispose
\* and the feedback prompt; the handler awaits the last effect it has done,
\* so each effect starts when the one before has completed.
C19_SuccessEffectsInOrder ==
    \A id \in TaskIds :
        LET t == tasks[id] IN
        /\ IsPrefix(t.effects, SuccessEffects(connectionToEditCopy # 0))
        /\ t.pc \in (SavePcs \cup RevealPcs) \ {"getUriForConnection"} =>
               t.effects # <<>>
        /\ t.effects # <<>> =>
               /\ t.pc = t.effects[Len(t.effects)]
               /\ Includes(t.effects, "Loaded") => status = "Loaded"

\* a connect that edits a saved connection has reached the feedback prompt
C19_EditedConnectionAtFeedback ==
    \E id \in TaskIds :
        /\ tasks[id].kind = "connect"
        /\ tasks[id].pc = "promptUserForNPSFeedback"
        /\ connectionToEditCopy # 0
        /\ tasks[id].effects = SuccessEffects(TRUE)
        /\ panel = "disposed"

\* C20: when removeProfile, saveProfile, the creation of the session node or
\* the reload of the lists throws, the connect ends with status Error and
\* with a form error that is not empty.
C20_LateFailureSurfaced ==
    [][\A id \in TaskIds :
           (/\ tasks[id].pc \in {"removeProfile", "saveProfile",
                                 "createObjectExplorerSessionFromDialog",
                                 "updateLoadedConnections"}
            /\ tasks'[id].pc = "idle") =>
               /\ status' = "Error"
               /\ formError' # Empty]_vars

(***************************************************************************)
(* Properties of the answers of the remote validate-and-save.              *)
(***************************************************************************)
ConnectionEvents ==
    {"CreateConnection.error", "CreateConnection.success",
     "CreateConnection.connectionError"}

\* the events of the connect attempt among those a handler has sent
AttemptEvents(events) == SelectSeq(events, LAMBDA e : e \in ConnectionEvents)

\* C21: when validateAndSaveProfileFromDialog answers with the certificate
\* error, the handler ends with status Error, the trustServerCert dialog
\* holding the error message, an empty form error, and no event sent for
\* the attempt.
C21_CertErrorOpensDialog ==
    [][\A id \in TaskIds :
           ResumeRemote(id, "certError") =>
               LET r == ConnectRemote(Session, tasks[id], "certError")
               IN  /\ tasks'[id].pc = "idle"
                   /\ status' = "Error"
                   /\ dialog'.type = "trustServerCert"
                   /\ dialog'.message = "errorMessage"
                   /\ formError' = Empty
                   /\ AttemptEvents(r.t.events) = <<>>
                   /\ tasks[id].kind = "connect" => r.t.events = <<>>]_vars

\* a connect has ended at the certificate error
C21_CertDialogOpen ==
    /\ Quiescent
    /\ dialog.type = "trustServerCert"
    /\ status = "Error"
    /\ formError = Empty

\* C22: when validateAndSaveProfileFromDialog answers with an error that is
\* neither the certificate nor the firewall error, the handler ends with the
\* form error equal to the returned message and status Error, has sent
\* exactly one event for the attempt, and leaves the dialog as it was.
C22_OtherErrorSurfaced ==
    [][\A id \in TaskIds :
           ResumeRemote(id, "otherError") =>
               LET r == ConnectRemote(Session, tasks[id], "otherError")
               IN  /\ tasks'[id].pc = "idle"
                   /\ formError' = "errorMessage"
                   /\ status' = "Error"
                   /\ dialog' = dialog
                   /\ Len(AttemptEvents(r.t.events)) = 1]_vars

\* a connect has ended at another error of the remote call, with no dialog
C22_OtherErrorShown ==
    /\ Quiescent
    /\ formError = "errorMessage"
    /\ status = "Error"
    /\ dialog = NoDialog

\* C23: when validateAndSaveProfileFromDialog throws, the handler ends with
\* the form error holding the message of the thrown error and status Error;
\* it has done no effect of the success path and the panel stays open.
C23_RemoteThrowStops ==
    [][\A id \in TaskIds :
           ResumeRemote(id, "throw") =>
               LET r == ConnectRemote(Session, tasks[id], "throw")
               IN  /\ tasks'[id].pc = "idle"
                   /\ formError' = "thrown"
                   /\ status' = "Error"
                   /\ r.t.effects = <<>>
                   /\ panel' = "open"]_vars

\* a connect has ended at a thrown remote call
C23_ThrownShown ==
    /\ Quiescent
    /\ formError = "thrown"
    /\ status = "Error"
    /\ panel = "open"

C25_LoadDropsStoredResults ==
    [][\A id \in TaskIds : \A i \in DOMAIN SavedConnections :
           (LoadConnection(id, i) /\ tasks'[id].pc # "threw") =>
               \A f \in Fields : validation'[f] = "none"]_vars

\* a formAction edit of propertyName ends in this step with Azure-MFA selected
MfaEditCompletes(id, propertyName) ==
    /\ tasks'[id].pc = "idle"
    /\ profile'["authenticationType"] = "AzureMFA"
    /\ \/ /\ tasks[id].kind = "formAction"
          /\ tasks[id].prop = propertyName
          /\ tasks[id].pc \notin {"idle", "threw"}
       \/ /\ tasks[id].pc = "idle"
          /\ \E e \in MfaEdits :
                 e[1] = propertyName /\ FormActionEdit(id, e[1], e[2])

\* the tenant options are what getTenants answers for the selected account
\* and, when there are any, the first of them is the profile's tenant
TenantsRefreshed ==
    /\ tenantOptions' \in {<<>>, TenantsOf(profile'["accountId"])}
    /\ tenantOptions' # <<>> => profile'["tenantId"] = tenantOptions'[1]

\* getAzureActionButtons has answered: refreshToken is among the buttons
\* exactly when the token of the account was found expired
ButtonsRefreshed ==
    \A id \in TaskIds : \A r \in {"fresh", "expired"} :
        ResumeMfaButtons(id, r) => refreshButton' = (r = "expired")

\* C26 (as stated): with Azure-MFA selected, every completed edit of
\* accountId, tenantId or authenticationType leaves the tenant options those
\* fetched for the selected account and the profile's tenant the first of
\* them when there are any; the refreshToken button is there only when the
\* token was found expired.
C26_EveryMfaEditRefreshes ==
    [][/\ \A id \in TaskIds : \A p \in mfaComponents :
              MfaEditCompletes(id, p) => TenantsRefreshed
       /\ ButtonsRefreshed]_vars

\* C26 (amended): the same for the edits of accountId and authenticationType;
\* an edit of tenantId writes the value into the profile and leaves the
\* tenant options and the buttons of the account field as they were.
C26_AccountAndAuthEditsRefresh ==
    [][/\ \A id \in TaskIds : \A p \in {"accountId", "authenticationType"} :
              MfaEditCompletes(id, p) => TenantsRefreshed
       /\ \A id \in TaskIds : \A e \in MfaEdits :
              (e[1] = "tenantId" /\ FormActionEdit(id, e[1], e[2])) =>
                  /\ profile'["tenantId"] = e[2]
                  /\ tenantOptions' = tenantOptions
                  /\ refreshButton' = refreshButton
       /\ ButtonsRefreshed]_vars

\* an edit has selected an account of two tenants whose token is expired
C26_SecondAccountSelected ==
    /\ Quiescent
    /\ profile["authenticationType"] = "AzureMFA"
    /\ profile["accountId"] = "a2"
    /\ tenantOptions = <<"t1", "t2">>
    /\ profile["tenantId"] = "t1"
    /\ refreshButton

\* C27: a formAction edit writes the value into the profile; when the field
\* is not in the active set of the selected input mode, or has no validator,
\* the stored validation results stay as they were; when it is active and
\* has a validator, the result of that validator for the new value is stored
\* on that field and on no other.
C27_EditValidatesOnlyActiveField ==
    [][\A id \in TaskIds : \A e \in MfaEdits :
           FormActionEdit(id, e[1], e[2]) =>
               /\ profile'[e[1]] = e[2]
               /\ validation' =
                      IF Includes(getActiveFormComponents(mode), e[1])
                             /\ HasValidate(e[1])
                      THEN [validation EXCEPT ![e[1]] =
                               Mark(e[1], e[2],
                                    profile'["authenticationType"], mode)]
                      ELSE validation]_vars

\* in ConnectionString mode the tenant was edited and has no stored result,
\* and the account, emptied in a form mode, is stored as invalid
C27_InactiveEditUnvalidated ==
    /\ Quiescent
    /\ mode = "ConnectionString"
    /\ profile["tenantId"] = "t2"
    /\ validation["tenantId"] = "none"
    /\ profile["accountId"] = Empty
    /\ validation["accountId"] = "invalid"

\* C28: after whole-form validation every field returned is a visible active
\* field with a validator, every hidden active field is stored as valid, and
\* the list returned is, in the order of the active fields, exactly the
\* visible active fields now stored as invalid.
C28_HiddenNeverReported ==
    arg = "validated" =>
        LET active == getActiveFormComponents(mode)
        IN  /\ \A i \in DOMAIN res[1] :
                   /\ Includes(active, res[1][i])
                   /\ res[1][i] \notin hidden
                   /\ HasValidate(res[1][i])
            /\ \A i \in DOMAIN active :
                   active[i] \in hidden => validation[active[i]] = "valid"
            /\ res[1] = SelectSeq(active,
                                  LAMBDA f : /\ f \notin hidden
                                             /\ validation[f] = "invalid")

\* Azure MFA with an account of one tenant: the empty tenant is hidden, is
\* stored as valid and is not reported
C28_HiddenEmptyTenantValid ==
    /\ arg = "validated"
    /\ mode = "Parameters"
    /\ profile["authenticationType"] = "AzureMFA"
    /\ profile["accountId"] = "a1"
    /\ profile["tenantId"] = Empty
    /\ "tenantId" \in hidden
    /\ validation["tenantId"] = "valid"
    /\ res[1] = <<>>

\* the fields of a compiled map that are to be grouped, in the map's order
AdvancedFields(components) ==
    SelectSeq(components.order,
              LAMBDA k : /\ components.at[k].isAdvancedOption
                         /\ ~Includes(componentsInfoMainOptions, k)
                         /\ ~Includes(topAdvancedOptions, k))

\* the category ids in display order: the five seeds, then the others in the
\* order in which the fields to group first name them
CategoryOrder(components) ==
    LET fields == AdvancedFields(components)
        cat == [i \in DOMAIN fields |-> components.at[fields[i]].optionCategory]
        first == SelectSeq([i \in DOMAIN fields |-> i],
                           LAMBDA i : /\ ~Includes(SeedCategories, cat[i])
                                      /\ \A j \in 1..(i - 1) : cat[j] # cat[i])
    IN  SeedCategories \o [m \in DOMAIN first |-> cat[first[m]]]

\* C29: the result has one place per category id, the five seeds first and
\* the other categories in first-encounter order; the members at the place
\* of a category are exactly the advanced fields of that category that are
\* neither main nor top-advanced options, in the order of the field map.
C29_GroupsByCategoryInOrder ==
    Len(res) = 2 =>
        LET components == res[1]
            groups == res[2]
            fields == AdvancedFields(components)
            keys == CategoryOrder(components)
        IN  /\ Len(groups) = Len(keys)
            /\ \A i \in DOMAIN groups :
                   LET members ==
                           SelectSeq(fields,
                                     LAMBDA k : components.at[k].optionCategory
                                                    = keys[i])
                   IN  IF members = <<>>
                       THEN "options" \in DOMAIN groups[i]
                                => groups[i].options = <<>>
                       ELSE /\ "options" \in DOMAIN groups[i]
                            /\ groups[i].options = members

\* C30: every element of the result is a group with a display label and a
\* list of member names.
C30_EveryElementIsGroup ==
    Len(res) = 2 =>
        \A i \in DOMAIN res[2] :
            /\ res[2][i] # UndefinedGroup
            /\ DOMAIN res[2][i] = {"groupName", "options"}
            /\ res[2][i].groupName # Undefined

\* C31: compiling any list of descriptors ends without throwing, and the
\* field map it returns has the five built-in fields.
C31_CompileFailsSoftly ==
    res # <<>> =>
        /\ ~res[1].threw
        /\ \A name \in {"profileName", "savePassword", "accountId",
                        "tenantId", "connectionString"} :
               ObjHas(res[1].components, name)

\* C32: the step that starts a connect attempt leaves the form error empty,
\* no field with a stored validation result, and status Loading.
C32_ConnectStartsClean ==
    [][\A id \in TaskIds :
           Connect(id) =>
               /\ formError' = Empty
               /\ \A f \in Fields : validation'[f] = "none"
               /\ status' = "Loading"]_vars

\* C33: getSqlToolsConfigValue returns the extension setting of the key when
\* it is truthy and the value of config.json when it is falsy;
\* getExtensionConfig and getWorkspaceConfig return the setting whenever it
\* is not undefined, falsy or not, and the default when it is undefined.
C33_SettingThenFallback ==
    res # <<>> =>
        LET key == SettingKey(arg.configKey)
            setting == arg.extensionConfig[key]
            wsSetting == arg.workspaceConfig[key]
        IN  /\ setting \notin Falsy => res[1].sqlTools = setting
            /\ setting \in Falsy => res[1].sqlTools = arg.config[arg.configKey]
            /\ setting # "undefined" => res[1].extension = setting
            /\ setting = "undefined" => res[1].extension = arg.defaultValue
            /\ wsSetting # "undefined" => res[1].workspace = wsSetting
            /\ wsSetting = "undefined" => res[1].workspace = arg.defaultValue

\* the setting is the empty string: config.json answers the tools getter,
\* and the extension getter returns the empty string although a default
\* was supplied
C33_EmptySettingFallsBack ==
    /\ res # <<>>
    /\ arg.extensionConfig[SettingKey(arg.configKey)] = ""
    /\ arg.defaultValue = "default"
    /\ res[1].sqlTools = "json1"
    /\ res[1].extension = ""

\* C34: no step of a connect handler, from its dispatch to its end, changes
\* the working profile.
C34_ConnectKeepsProfile ==
    [][\A id \in TaskIds :
           (/\ tasks'[id] # tasks[id]
            /\ "connect" \in {tasks[id].kind, tasks'[id].kind}) =>
               profile' = profile]_vars

\* a connect in Parameters mode has failed at the remote call; the
\* connection string typed earlier, which the clean copy drops, is still in
\* the working profile
C34_FailedConnectKeptString ==
    /\ Quiescent
    /\ status = "Error"
    /\ formError = "errorMessage"
    /\ mode = "Parameters"
    /\ profile["connectionString"] = "v"

\* C35: the profile handed to saveProfile and to
\* createObjectExplorerSessionFromDialog is the cleaned copy that was sent
\* to validateAndSaveProfileFromDialog.
C35_CleanedProfilePersisted ==
    [][\A id \in TaskIds :
           (/\ tasks'[id].pc \in {"saveProfile",
                                  "createObjectExplorerSessionFromDialog"}
            /\ tasks'[id].pc # tasks[id].pc) =>
               tasks'[id].handed = tasks[id].cleaned]_vars

\* the suspension points of connectHelper and handleConnectionErrorCodes
AttemptPcs ==
    {"co_validate", "co_remote", "co_firewall", "co_firewallAuth"}
        \cup SavePcs \cup RevealPcs

\* C36: status becomes Loaded only in the step of a handler whose remote
\* call answered without error message (its success event was sent) and
\* whose saveProfile, createObjectExplorerSessionFromDialog and reload of
\* the lists have returned; and a step of a connect attempt that opens a
\* recovery dialog or sets a form error is the last step of that attempt.
C36_LoadedOnlyAfterSave ==
    [][/\ (status' = "Loaded" /\ status # "Loaded") =>
              \E id \in TaskIds :
                  /\ tasks[id].pc = "updateLoadedConnections"
                  /\ tasks'[id].pc = "reveal"
                  /\ Includes(tasks[id].events, "CreateConnection.success")
                  /\ ~Includes(tasks[id].events, "CreateConnection.error")
                  /\ Includes(tasks[id].effects, "saveProfile")
                  /\ Includes(tasks[id].effects,
                              "createObjectExplorerSessionFromDialog")
       /\ \A id \in TaskIds :
              (/\ tasks[id].pc \in AttemptPcs
               /\ tasks'[id] # tasks[id]
               /\ \/ dialog' # dialog /\ dialog'.type # "none"
                  \/ formError' # formError /\ formError' # Empty) =>
                  tasks'[id].pc = "idle"]_vars

\* a connect has set Loaded and awaits the reveal of its node
C36_LoadedAtReveal ==
    \E id \in TaskIds :
        /\ tasks[id].pc = "reveal"
        /\ status = "Loaded"
        /\ formError = Empty
        /\ dialog = NoDialog

\* C38: whenever a recovery dialog (trustServerCert or addFirewallRule) is
\* active, the connection status is Error: no state has a recovery dialog
\* active together with status Loading or Loaded.
C38_DialogImpliesError ==
    dialog.type # "none" => status = "Error"

\* C39: with Azure-MFA selected, after any completed edit of accountId or
\* authenticationType the profile's tenantId is empty or one of the tenants
\* of the selected account: the tenant of a previous account does not
\* survive a switch to an account that does not have it.
C39_TenantBelongsToAccount ==
    [][\A id \in TaskIds : \A p \in {"accountId", "authenticationType"} :
           MfaEditCompletes(id, p) =>
               \/ profile'["tenantId"] = Empty
               \/ profile'["tenantId"] \in
                      Range(TenantsOf(profile'["accountId"]))]_vars

(***************************************************************************)
(* Properties of the loadAzureServers action (SpecLoad).                   *)
(***************************************************************************)
\* C37: whenever no load is in flight, the server list holds no server
\* twice and no server of a listed subscription whose loaded flag is false,
\* after any sequence of filterAzureSubscriptions and loadAzureServers
\* actions, repeated ones included.
C37_ServersMatchLoadedFlags ==
    Quiescent =>
        /\ \A i, j \in DOMAIN azureServers :
               azureServers[i] = azureServers[j] => i = j
        /\ \A i \in DOMAIN azureServers :
               \A k \in DOMAIN azureSubscriptions :
                   azureSubscriptions[k].id = azureServers[i].subscriptionId
                       => azureSubscriptions[k].loaded

\* C40: a loadAzureServers action for an id that is not in the subscription
\* cache, the cache of a session that has listed no subscription included,
\* ends without a throw and leaves the server list and the loaded flags as
\* they were.
C40_UnknownIdIsHarmless ==
    [][\A id \in TaskIds :
           (/\ tasks[id].pc = "fetchServersFromAzure"
            /\ ~tasks[id].azSub
            /\ tasks'[id].pc # tasks[id].pc) =>
               /\ tasks'[id].pc = "idle"
               /\ azureServers' = azureServers
               /\ azureSubscriptions' = azureSubscriptions]_vars
====
